---- MODULE Spec2Model ----
(***************************************************************************)
(* GenifyAI: the parse cache keyed on file modification time               *)
(* (parsers/cache.ts), the cache-checked parseFile and parseFileForSymbol  *)
(* of the language extractors (parsers/typescript.ts, solidity.ts,         *)
(* python.ts), the export resolver (parsers/exportResolver.ts: followExport *)
(* and getAllReexportedSymbols), the alias store (tools/registerAlias.ts), *)
(* the registry lookup (parsers/registry.ts), the compound-document        *)
(* extractor (parsers/vue.ts) and the tools searchFuzzy and searchSymbol.  *)
(*                                                                         *)
(* Optional values (T | null, T | undefined) are sequences of length at    *)
(* most one: None is <<>> and Some(x) is <<x>>.                            *)
(***************************************************************************)
EXTENDS Integers, Sequences, FiniteSets, TLC

VARIABLES
    disk,     \* the file system: absolute path -> [mtime, content, readable]
    cache,    \* cache.ts `cache`: Map<string, CacheEntry>, a function on its keys
    pf,       \* the running parseFile call: its position and its locals
    dirty,    \* history: the file of the running parseFile call changed on
              \* disk since the call began
    fePc,     \* the top-level followExport call: "idle", "run" or "done"
    request,  \* its arguments: [filePath, exportedName]
    stack,    \* the call stack of followExport, the running call last
    visited,  \* followExport `visited`: the set shared by the recursive calls
    ret,      \* the value returned by the followExport call that ended last
    processed, \* history: the (file, name) pairs parsed, in order
    gaPc,     \* the top-level getAllReexportedSymbols call: "idle", "run" or "done"
    gaRoot,   \* its argument filePath
    gaStack,  \* the call stack of getAllReexportedSymbols, the running call last
    gaVisited, \* getAllReexportedSymbols `visited`: the set of files, shared
    gaRet,    \* the list returned by the call that ended last
    gaParsed, \* history: the files parsed, in order
    aliases,  \* .genifyai/aliases.json: AliasStore.aliases, a list of [term, targets]
    sfPc,     \* the searchFuzzy call: "idle", "awaiting", "returned" or "rejected"
    sfInput,  \* its input: [query, limit]
    sfStrat,  \* the promises of the four recall strategies: [status, results]
    allResults, \* searchFuzzy `allResults`, the list handed to mergeAndSort
    sfOut,    \* the list searchFuzzy returned
    ssPc,     \* the searchSymbol call: "idle", "extract", "follow", "wait" or "done"
    ssInput,  \* its input: [query, type, limit, followExports]
    candidateFiles, \* searchSymbol `candidateFiles`
    ssI,      \* the position of the loop over candidateFiles
    allSymbols, \* searchSymbol `allSymbols`
    seen,     \* searchSymbol `seen`
    ssOut,    \* the list searchSymbol returned
    opPc,     \* a call of one operation on its own: "idle", "call" or "done"
    opArgs,   \* its arguments
    opRet     \* the value it returned

cacheVars == <<disk, cache, pf, dirty>>
feVars == <<fePc, request, stack, visited, ret, processed>>
gaVars == <<gaPc, gaRoot, gaStack, gaVisited, gaRet, gaParsed>>
\* the state of the operations other than parseFile and followExport
sfVars == <<aliases, sfPc, sfInput, sfStrat, allResults, sfOut>>
ssVars == <<ssPc, ssInput, candidateFiles, ssI, allSymbols, seen, ssOut>>
opVars == <<opPc, opArgs, opRet>>
toolVars == <<gaVars, sfVars, ssVars, opVars>>
vars == <<disk, cache, pf, dirty, fePc, request, stack, visited, ret, processed,
          gaPc, gaRoot, gaStack, gaVisited, gaRet, gaParsed,
          aliases, sfPc, sfInput, sfStrat, allResults, sfOut,
          ssPc, ssInput, candidateFiles, ssI, allSymbols, seen, ssOut,
          opPc, opArgs, opRet>>

None == <<>>
Some(x) == <<x>>

(***************************************************************************)
(* Bounds of the model.                                                    *)
(***************************************************************************)
\* modification times are drawn from 1..MaxMtime
MaxMtime == 2

(***************************************************************************)
(* Paths.  A workspace-relative path is [dir, base, ext], dir "" being the *)
(* workspace root; the absolute path is the pair <<root, relative path>>.  *)
(***************************************************************************)
WorkspaceRoot == "/ws"

Path(dir, base, ext) == [dir |-> dir, base |-> base, ext |-> ext]

\* pathResolver.ts toAbsolute, for the workspace-relative paths of the model
ToAbsolute(p) == <<WorkspaceRoot, p>>

\* pathResolver.ts toRelative / path.relative(getWorkspaceRoot(), abs)
ToRelative(abs) == abs[2]

(***************************************************************************)
(* File contents.  A source text is empty, or one the parser throws on,    *)
(* or a text with declarations (syms) and export statements (exps).        *)
(***************************************************************************)
Text(syms, exps) == [empty |-> FALSE, throws |-> FALSE, syms |-> syms, exps |-> exps]
EmptyText == [empty |-> TRUE, throws |-> FALSE, syms |-> <<>>, exps |-> <<>>]
ThrowingText == [empty |-> FALSE, throws |-> TRUE, syms |-> <<>>, exps |-> <<>>]

Decl(name, kind, line) == [name |-> name, kind |-> kind, line |-> line]

File(mtime, content, readable) ==
    [mtime |-> mtime, content |-> content, readable |-> readable]

(***************************************************************************)
(* types.ts ParseResult and the three outcomes parseFile builds.           *)
(***************************************************************************)
ReadError(p) ==
    [symbols |-> <<>>, exports |-> <<>>, errors |-> << <<"Failed to read file", p>> >>]

\* a parse failure that keeps a symbol of the part already read
ParseError_Partial(p) ==
    [symbols |-> << [name |-> "X", kind |-> "function", file |-> p, startLine |-> 1] >>,
     exports |-> <<>>, errors |-> << <<"Failed to parse file", p>> >>]

ParseError(p) ==
    [symbols |-> <<>>, exports |-> <<>>, errors |-> << <<"Failed to parse file", p>> >>]

\* collectSymbols + collectExports on a parsed tree: one SymbolInfo per
\* declaration, in source order, owned by the file parsed
Extract(p, content) ==
    [symbols |-> [i \in 1..Len(content.syms) |->
                    [name |-> content.syms[i].name,
                     kind |-> content.syms[i].kind,
                     file |-> p,
                     startLine |-> content.syms[i].line]],
     exports |-> content.exps,
     errors  |-> <<>>]

(***************************************************************************)
(* The file system calls the code makes.                                   *)
(***************************************************************************)
\* fs.statSync(abs).mtimeMs, or None when statSync throws
StatMtime(fs, abs) == IF abs \in DOMAIN fs THEN Some(fs[abs].mtime) ELSE None

\* fileReader.ts readFileContent: the text, or null when readFileSync throws
ReadFileContent(fs, p) ==
    LET abs == ToAbsolute(p) IN
    IF abs \in DOMAIN fs /\ fs[abs].readable THEN Some(fs[abs].content) ELSE None

\* JavaScript `!sourceCode`: true of null and of the empty string
Falsy(src) == src = None \/ src[1].empty

(***************************************************************************)
(* cache.ts                                                                *)
(***************************************************************************)
MapGet(m, k) == IF k \in DOMAIN m THEN Some(m[k]) ELSE None
MapDelete(m, k) == [q \in (DOMAIN m) \ {k} |-> m[q]]
MapSet(m, k, v) == [q \in (DOMAIN m) \cup {k} |-> IF q = k THEN v ELSE m[q]]
EmptyMap == [q \in {} |-> None]

\* getCachedResult without the comparison of modification times
GetCachedResult_NoMtimeCheck(c, fs, p) ==
    LET entry == MapGet(c, p)
        currentMtime == StatMtime(fs, ToAbsolute(p))
    IN  IF entry = None
        THEN [cache |-> c, result |-> None, entry |-> entry, currentMtime |-> None]
        ELSE IF currentMtime # None
        THEN [cache |-> c, result |-> Some(entry[1].result),
              entry |-> entry, currentMtime |-> currentMtime]
        ELSE [cache |-> MapDelete(c, p), result |-> None,
              entry |-> entry, currentMtime |-> currentMtime]

\* getCachedResult that clears the map where it should delete one key
GetCachedResult_ClearsAll(c, fs, p) ==
    LET entry == MapGet(c, p)
        currentMtime == StatMtime(fs, ToAbsolute(p))
    IN  IF entry = None
        THEN [cache |-> c, result |-> None, entry |-> entry, currentMtime |-> None]
        ELSE IF currentMtime # None /\ currentMtime[1] = entry[1].mtime
        THEN [cache |-> c, result |-> Some(entry[1].result),
              entry |-> entry, currentMtime |-> currentMtime]
        ELSE [cache |-> EmptyMap, result |-> None,
              entry |-> entry, currentMtime |-> currentMtime]

\* getCachedResult: the new cache, the value returned, and the locals
GetCachedResult(c, fs, p) ==
    LET entry == MapGet(c, p)
        currentMtime == StatMtime(fs, ToAbsolute(p))
    IN  IF entry = None
        THEN [cache |-> c, result |-> None, entry |-> entry, currentMtime |-> None]
        ELSE IF currentMtime # None /\ currentMtime[1] = entry[1].mtime
        THEN [cache |-> c, result |-> Some(entry[1].result),
              entry |-> entry, currentMtime |-> currentMtime]
        ELSE [cache |-> MapDelete(c, p), result |-> None,
              entry |-> entry, currentMtime |-> currentMtime]

\* setCachedResult that stores the outcome before its symbols are collected
SetCachedResult_DropsSymbols(c, fs, p, result) ==
    LET stat == StatMtime(fs, ToAbsolute(p))
    IN  IF stat # None
        THEN MapSet(c, p, [mtime |-> stat[1], result |-> [result EXCEPT !.symbols = <<>>]])
        ELSE c

\* setCachedResult that stores under time 0 when the stat fails
SetCachedResult_NoStat(c, fs, p, result) ==
    LET stat == StatMtime(fs, ToAbsolute(p))
    IN  MapSet(c, p, [mtime |-> IF stat # None THEN stat[1] ELSE 0, result |-> result])

\* setCachedResult
SetCachedResult(c, fs, p, result) ==
    LET stat == StatMtime(fs, ToAbsolute(p))
    IN  IF stat # None
        THEN MapSet(c, p, [mtime |-> stat[1], result |-> result])
        ELSE c

\* invalidateCache(filePath?): one key, or the whole map when none is given
InvalidateCache(c, filePath) ==
    IF filePath # None THEN MapDelete(c, filePath[1]) ELSE EmptyMap

\* parseFile run to its return on a file system that does not change
\* meanwhile: the new cache and the outcome returned
ParseFile(c, fs, p) ==
    LET g == GetCachedResult(c, fs, p)
        sourceCode == ReadFileContent(fs, p)
    IN  IF g.result # None THEN [cache |-> g.cache, result |-> g.result[1]]
        ELSE IF Falsy(sourceCode) THEN [cache |-> g.cache, result |-> ReadError(p)]
        ELSE IF sourceCode[1].throws THEN [cache |-> g.cache, result |-> ParseError(p)]
        ELSE LET result == Extract(p, sourceCode[1])
             IN  [cache |-> SetCachedResult(g.cache, fs, p, result), result |-> result]

(***************************************************************************)
(* parseFile (typescript.ts; solidity.ts and python.ts have the same       *)
(* shape), one step per interaction with the file system: the file can     *)
(* change between the stat of getCachedResult, the read, and the stat of   *)
(* setCachedResult.                                                        *)
(***************************************************************************)
CachePaths == {Path("", "A", ".ts"), Path("", "B", ".ts")}

CacheContents ==
    {EmptyText, ThrowingText,
     Text(<<Decl("X", "function", 1)>>, <<>>),
     Text(<<Decl("Y", "class", 1)>>, <<>>)}

Mtimes == 1..MaxMtime

\* what a file can be: readable with some content, or unreadable (its
\* content cannot be observed until it is written readable again)
Files ==
    {File(m, c, TRUE) : m \in Mtimes, c \in CacheContents}
        \cup {File(m, EmptyText, FALSE) : m \in Mtimes}

\* the files the environment writes at p: every kind of file at A.ts, and
\* one fixed file at B.ts, which is there for the cache to hold a second key
FilesAt(p) ==
    IF p = Path("", "A", ".ts") THEN Files
    ELSE {File(1, Text(<<Decl("Y", "class", 1)>>, <<>>), TRUE)}

IdleFrame ==
    [pc |-> "idle", path |-> None, entry |-> None, currentMtime |-> None,
     cached |-> None, sourceCode |-> None, result |-> None]

\* parseFile(filePath) is called
PfCall(p) ==
    /\ pf.pc = "idle"
    /\ pf' = [IdleFrame EXCEPT !.pc = "lookup", !.path = Some(p)]
    /\ dirty' = FALSE
    /\ UNCHANGED <<disk, cache>>
    /\ UNCHANGED <<feVars, toolVars>>

\* const cached = getCachedResult(filePath); if (cached) return cached;
PfLookup ==
    /\ pf.pc = "lookup"
    /\ LET p == pf.path[1]
           g == GetCachedResult(cache, disk, p)
       IN  /\ cache' = g.cache
           /\ IF g.result # None
              THEN /\ pf' = [pf EXCEPT !.pc = "done", !.entry = g.entry,
                                       !.currentMtime = g.currentMtime,
                                       !.cached = g.result, !.result = g.result]
              ELSE /\ pf' = [pf EXCEPT !.pc = "read", !.entry = g.entry,
                                       !.currentMtime = g.currentMtime]
    /\ UNCHANGED <<disk, dirty>>
    /\ UNCHANGED <<feVars, toolVars>>

\* const sourceCode = readFileContent(filePath); if (!sourceCode) return {read error}
PfRead ==
    /\ pf.pc = "read"
    /\ LET p == pf.path[1]
           src == ReadFileContent(disk, p)
       IN  IF Falsy(src)
           THEN /\ pf' = [pf EXCEPT !.pc = "done", !.sourceCode = src,
                                    !.result = Some(ReadError(p))]
           ELSE /\ pf' = [pf EXCEPT !.pc = "parse", !.sourceCode = src]
    /\ UNCHANGED <<disk, cache, dirty>>
    /\ UNCHANGED <<feVars, toolVars>>

\* parseFile whose catch block caches the error outcome
PfParse_CachesError ==
    /\ pf.pc = "parse"
    /\ LET p == pf.path[1]
           src == pf.sourceCode[1]
           result == IF src.throws THEN ParseError(p) ELSE Extract(p, src)
       IN  /\ cache' = SetCachedResult(cache, disk, p, result)
           /\ pf' = [pf EXCEPT !.pc = "done", !.result = Some(result)]
    /\ UNCHANGED <<disk, dirty>>
    /\ UNCHANGED <<feVars, toolVars>>

\* try { parse; collect; setCachedResult(filePath, result); return result }
\* catch { return {parse error} }
PfParse ==
    /\ pf.pc = "parse"
    /\ LET p == pf.path[1]
           src == pf.sourceCode[1]
       IN  IF src.throws
           THEN /\ pf' = [pf EXCEPT !.pc = "done", !.result = Some(ParseError(p))]
                /\ cache' = cache
           ELSE LET result == Extract(p, src) IN
                /\ cache' = SetCachedResult(cache, disk, p, result)
                /\ pf' = [pf EXCEPT !.pc = "done", !.result = Some(result)]
    /\ UNCHANGED <<disk, dirty>>
    /\ UNCHANGED <<feVars, toolVars>>

\* the caller has the outcome
PfReturn ==
    /\ pf.pc = "done"
    /\ pf' = IdleFrame
    /\ dirty' = FALSE
    /\ UNCHANGED <<disk, cache>>
    /\ UNCHANGED <<feVars, toolVars>>

\* invalidateCache(filePath) and invalidateCache(): the program is single
\* threaded, so they run between parseFile calls
Invalidate(filePath) ==
    /\ pf.pc = "idle"
    /\ cache' = InvalidateCache(cache, filePath)
    /\ UNCHANGED <<disk, pf, dirty>>
    /\ UNCHANGED <<feVars, toolVars>>

\* another process writes (creates, edits, touches, chmods) the file
EnvWrite(p, f) ==
    /\ disk' = MapSet(disk, ToAbsolute(p), f)
    /\ disk' # disk
    /\ dirty' = (dirty \/ pf.path = Some(p))
    /\ UNCHANGED <<cache, pf>>
    /\ UNCHANGED <<feVars, toolVars>>

\* another process deletes the file
EnvDelete(p) ==
    /\ ToAbsolute(p) \in DOMAIN disk
    /\ disk' = MapDelete(disk, ToAbsolute(p))
    /\ dirty' = (dirty \/ pf.path = Some(p))
    /\ UNCHANGED <<cache, pf>>
    /\ UNCHANGED <<feVars, toolVars>>

\* no followExport call is running
GaIdle ==
    /\ gaPc = "idle"
    /\ gaRoot = None
    /\ gaStack = <<>>
    /\ gaVisited = {}
    /\ gaRet = <<>>
    /\ gaParsed = <<>>

\* the strategies Promise.all is given, in order
Strategies == <<"alias", "symbol", "file", "text">>

SfIdle ==
    /\ aliases = <<>>
    /\ sfPc = "idle"
    /\ sfInput = None
    /\ sfStrat = [n \in {Strategies[i] : i \in 1..Len(Strategies)} |->
                    [status |-> "idle", results |-> <<>>]]
    /\ allResults = <<>>
    /\ sfOut = <<>>

SsIdle ==
    /\ ssPc = "idle"
    /\ ssInput = None
    /\ candidateFiles = <<>>
    /\ ssI = 0
    /\ allSymbols = <<>>
    /\ seen = {}
    /\ ssOut = <<>>

OpIdle ==
    /\ opPc = "idle"
    /\ opArgs = <<>>
    /\ opRet = <<>>

\* no tool call is running
ToolsIdle == GaIdle /\ SfIdle /\ SsIdle /\ OpIdle

FeIdle ==
    /\ fePc = "idle"
    /\ request = None
    /\ stack = <<>>
    /\ visited = {}
    /\ ret = None
    /\ processed = <<>>

Init ==
    /\ disk = EmptyMap
    /\ cache = EmptyMap
    /\ pf = IdleFrame
    /\ dirty = FALSE
    /\ FeIdle
    /\ ToolsIdle

Next ==
    \/ \E p \in CachePaths : PfCall(p)
    \/ PfLookup
    \/ PfRead
    \/ PfParse
    \/ PfReturn
    \/ \E p \in CachePaths : Invalidate(Some(p))
    \/ Invalidate(None)
    \/ \E p \in CachePaths : \E f \in FilesAt(p) : EnvWrite(p, f)
    \/ \E p \in CachePaths : EnvDelete(p)

Spec == Init /\ [][Next]_vars

(***************************************************************************)
(* Properties of the parse cache and of parseFile.                         *)
(***************************************************************************)
\* getCachedResult of the running call found an entry that the stat did not
\* confirm: the times differ, or the file is gone
StaleEntry == pf.entry # None /\ pf.currentMtime # Some(pf.entry[1].mtime)

\* the file has a text the parser accepts
Parseable(fs, p) ==
    LET src == ReadFileContent(fs, p) IN ~Falsy(src) /\ ~src[1].throws

\* C1 (cache invalidation): a parseFile that finds the path cached with an
\* outcome O1 under a modification time other than the file's current one
\* does not return the cached O1; with the file unchanged while the call
\* runs, it returns the outcome of the content now on disk.
C1_CacheInvalidation ==
    (pf.pc = "done" /\ StaleEntry /\ ~dirty) =>
        /\ pf.cached = None
        /\ pf.result = Some(ParseFile(EmptyMap, disk, pf.path[1]).result)

C1_Witness ==
    /\ pf.pc = "done" /\ StaleEntry /\ ~dirty
    /\ pf.currentMtime # None
    /\ pf.result[1].errors = <<>>
    /\ pf.result[1] # pf.entry[1].result

\* C2 (getCachedResult): the lookup step returns the stored outcome exactly
\* when an entry exists and the stat gives the entry's modification time,
\* leaving the cache as it is; when the times differ or the stat fails it
\* returns absent, the entry of the path is gone and every other entry is
\* as before.
C2_GetCachedResult ==
    [][(pf.pc = "lookup" /\ pf'.pc # "lookup") =>
        LET p == pf.path[1]
            entry == MapGet(cache, p)
            stat == StatMtime(disk, ToAbsolute(p))
            valid == entry # None /\ stat # None /\ stat[1] = entry[1].mtime
        IN  /\ (pf'.cached # None) <=> valid
            /\ valid => (pf'.cached = Some(entry[1].result) /\ cache' = cache)
            /\ ~valid => /\ DOMAIN cache' = (DOMAIN cache) \ {p}
                         /\ \A q \in DOMAIN cache' : cache'[q] = cache[q]]_vars

C2_Witness ==
    /\ pf.pc = "read" /\ StaleEntry
    /\ pf.path[1] \notin DOMAIN cache
    /\ DOMAIN cache # {}

\* C3 (idempotence): when a parseFile call has returned and the file did not
\* change while it ran, a second parseFile on the same path, the file still
\* unchanged, returns an equal outcome, whether from the cache or not.
C3_Idempotence ==
    (pf.pc = "done" /\ ~dirty) =>
        ParseFile(cache, disk, pf.path[1]).result = pf.result[1]

C3_Witness ==
    /\ pf.pc = "done" /\ ~dirty
    /\ pf.cached = None
    /\ pf.result[1].symbols # <<>>
    /\ pf.path[1] \in DOMAIN cache

\* C4 (errors are not cached): a step creates or replaces the entry of a
\* path only as the step of a parseFile on that path that returns the
\* stored outcome, which has no errors; no entry ever holds an error
\* outcome; and a parseFile on a readable file the parser accepts returns
\* an outcome without errors, whatever failed before.
C4_ErrorsNotCached ==
    /\ [][\A p \in CachePaths :
            (p \in DOMAIN cache' /\ MapGet(cache', p) # MapGet(cache, p)) =>
                /\ pf'.pc = "done" /\ pf'.path = Some(p)
                /\ pf'.result[1].errors = <<>>
                /\ cache'[p].result = pf'.result[1]]_vars
    /\ [](\A p \in DOMAIN cache : cache[p].result.errors = <<>>)
    /\ []((pf.pc = "done" /\ ~dirty /\ Parseable(disk, pf.path[1])) =>
            pf.result[1].errors = <<>>)

C4_Witness ==
    /\ pf.pc = "done"
    /\ pf.sourceCode # None /\ pf.sourceCode[1].throws
    /\ pf.result[1].errors # <<>>
    /\ pf.path[1] \notin DOMAIN cache
    /\ pf.entry # None

\* C5 (setCachedResult): the step of parseFile that stores a successful
\* outcome leaves the cache unchanged, with no entry for the path, when the
\* stat of the file fails at that moment; when the stat succeeds the cache
\* changes only at the path, to the stat's time and the outcome returned.
C5_SetCachedResult ==
    [][(pf.pc = "parse" /\ pf'.pc = "done" /\ pf'.result[1].errors = <<>>) =>
        LET p == pf.path[1]
            stat == StatMtime(disk, ToAbsolute(p))
        IN  IF stat = None
            THEN cache' = cache /\ p \notin DOMAIN cache'
            ELSE cache' = MapSet(cache, p, [mtime |-> stat[1],
                                            result |-> pf'.result[1]])]_vars

C5_Witness ==
    /\ pf.pc = "done" /\ pf.cached = None
    /\ pf.result[1].errors = <<>>
    /\ pf.path[1] \notin DOMAIN cache
    /\ DOMAIN cache # {}

(***************************************************************************)
(* registry.ts and the dispatching parseFile of parsers/index.ts.          *)
(***************************************************************************)
\* the extensions the language modules register at start-up
RegisteredExtensions ==
    {".ts", ".tsx", ".js", ".jsx", ".sol", ".html", ".htm", ".css", ".less", ".sass",
     ".scss", ".py", ".pyw", ".vue"}

\* getParserForFile: keyed by the text from the last '.' on; a path without
\* an extension has no parser
GetParserForFile(p) == IF p.ext \in RegisteredExtensions THEN Some(p.ext) ELSE None

UnsupportedError(p) ==
    [symbols |-> <<>>, exports |-> <<>>, errors |-> << <<"Unsupported file type", p>> >>]

\* parsers/index.ts parseFile, for the extractors of one language; the
\* extractor of .vue files is VueParseFile
ParseFileDispatch(c, fs, p) ==
    IF GetParserForFile(p) = None
    THEN [cache |-> c, result |-> UnsupportedError(p)]
    ELSE ParseFile(c, fs, p)

(***************************************************************************)
(* exportResolver.ts                                                       *)
(***************************************************************************)
MAX_DEPTH == 10

\* types.ts ExportInfo (the location is left out)
Named(localName, exportedName, source) ==
    [kind |-> "named", localName |-> localName, exportedName |-> exportedName,
     source |-> source]
All(source) ==
    [kind |-> "all", localName |-> None, exportedName |-> None, source |-> source]
Default(localName) ==
    [kind |-> "default", localName |-> localName, exportedName |-> Some("default"),
     source |-> None]

\* JavaScript truthiness of an optional string
Truthy(s) == s # None /\ s[1] # ""

\* resolveModulePath: const extensions
Extensions == <<".ts", ".tsx", ".js", ".jsx", "">>

\* path.join(dir, importPath, 'index' + ext), relative to the workspace
IndexIn(dir, importPath) == IF dir = "" THEN importPath ELSE dir \o "/" \o importPath

\* fs.existsSync(candidate) && fs.statSync(candidate).isFile()
IsFile(fs, candidate) == ToAbsolute(candidate) \in DOMAIN fs

\* resolveModulePath: the candidates in the order tried
Candidates(fromFile, importPath) ==
    [i \in 1..Len(Extensions) |-> Path(fromFile.dir, importPath, Extensions[i])]
        \o [i \in 1..Len(Extensions) |->
                Path(IndexIn(fromFile.dir, importPath), "index", Extensions[i])]

\* resolveModulePath: the first candidate that is a file, or null
ResolveModulePath(fs, fromFile, importPath) ==
    LET cands == Candidates(fromFile, importPath)
        hits == {i \in 1..Len(cands) : IsFile(fs, cands[i])}
    IN  IF hits = {} THEN None
        ELSE Some(ToRelative(ToAbsolute(cands[CHOOSE i \in hits : \A j \in hits : i <= j])))

\* result.symbols.find((s) => s.name === name)
FindSymbol(symbols, name) ==
    LET hits == {i \in 1..Len(symbols) : symbols[i].name = name}
    IN  IF hits = {} THEN None
        ELSE Some(symbols[CHOOSE i \in hits : \A j \in hits : i <= j])

\* if (depth > MAX_DEPTH) return null
DepthExceeded(depth) == depth > MAX_DEPTH

\* followExport without the visited check
AlreadyVisited_Never(v, key) == FALSE

\* if (visited.has(key)) return null
AlreadyVisited(v, key) == key \in v

\* a ResolvedExport built with an empty chain
ResolvedHere_EmptyChain(filePath, exportedName, symbol) ==
    [originalFile |-> filePath, originalName |-> exportedName,
     resolvedFile |-> filePath, resolvedSymbol |-> Some(symbol),
     exportChain |-> <<>>]

\* followExport without its two guards
Guarded_Never(depth, v, key) == FALSE

\* the two guards at the head of followExport
Guarded(depth, v, key) == DepthExceeded(depth) \/ AlreadyVisited(v, key)

\* the ResolvedExport built where the symbol is found
ResolvedHere(filePath, exportedName, symbol) ==
    [originalFile |-> filePath, originalName |-> exportedName,
     resolvedFile |-> filePath, resolvedSymbol |-> Some(symbol),
     exportChain |-> <<filePath>>]

\* push where the code has unshift
Unshift_Push(resolved, filePath) ==
    [resolved EXCEPT !.exportChain = @ \o <<filePath>>]

\* resolved.exportChain.unshift(filePath); return resolved
Unshift(resolved, filePath) ==
    [resolved EXCEPT !.exportChain = <<filePath>> \o @]

\* the loop body recursing with the exported name where the code has the
\* local one
RecursiveCall_ExportedName(fs, filePath, exportedName, exp) ==
    IF exp.kind \in {"named", "all"} /\ Truthy(exp.source)
          /\ (exp.kind = "named" => exp.exportedName = Some(exportedName))
    THEN LET targetFile == ResolveModulePath(fs, filePath, exp.source[1])
         IN  IF targetFile = None THEN None
             ELSE Some([filePath |-> targetFile[1], exportedName |-> exportedName])
    ELSE None

\* the recursive call an export record leads to, if any
\* (the `named` and the `all` branch of the loop body)
RecursiveCall(fs, filePath, exportedName, exp) ==
    IF exp.kind = "named" /\ exp.exportedName = Some(exportedName) /\ Truthy(exp.source)
    THEN LET targetFile == ResolveModulePath(fs, filePath, exp.source[1])
         IN  IF targetFile = None THEN None
             ELSE Some([filePath |-> targetFile[1],
                        exportedName |-> IF exp.localName # None
                                         THEN exp.localName[1] ELSE exportedName])
    ELSE IF exp.kind = "all" /\ Truthy(exp.source)
    THEN LET targetFile == ResolveModulePath(fs, filePath, exp.source[1])
         IN  IF targetFile = None THEN None
             ELSE Some([filePath |-> targetFile[1], exportedName |-> exportedName])
    ELSE None

\* the `default` branch of the loop body: the local symbol it returns, if any
DefaultSymbol(result, exportedName, exp) ==
    IF exp.kind = "default" /\ exportedName = "default" /\ Truthy(exp.localName)
    THEN FindSymbol(result.symbols, exp.localName[1])
    ELSE None

\* a call of followExport about to run its body
Frame(filePath, exportedName, depth) ==
    [filePath |-> filePath, exportedName |-> exportedName, depth |-> depth,
     at |-> "enter", result |-> None, i |-> 0]

Top == stack[Len(stack)]

\* the running call returns v to its caller
Pop(v) ==
    /\ stack' = SubSeq(stack, 1, Len(stack) - 1)
    /\ ret' = v
    /\ fePc' = IF Len(stack) = 1 THEN "done" ELSE "run"

\* the running call goes on, its locals now fr
Continue(fr) ==
    /\ stack' = [stack EXCEPT ![Len(stack)] = fr]
    /\ UNCHANGED <<ret, fePc>>

Names == {"X", "Y", "default"}

\* followExport(filePath, exportedName) is called with visited = {} and depth = 0
FeCall(f, n) ==
    /\ fePc = "idle"
    /\ IsFile(disk, f)
    /\ fePc' = "run"
    /\ request' = Some([filePath |-> f, exportedName |-> n])
    /\ stack' = <<Frame(f, n, 0)>>
    /\ visited' = {}
    /\ UNCHANGED <<ret, processed, cacheVars, toolVars>>

\* the guards, parseFile, and the lookup among the local symbols
FeEnter ==
    /\ fePc = "run" /\ Top.at = "enter"
    /\ LET fr == Top
           key == <<fr.filePath, fr.exportedName>>
       IN  IF Guarded(fr.depth, visited, key)
           THEN /\ Pop(None)
                /\ UNCHANGED <<visited, cache, processed>>
           ELSE LET r == ParseFileDispatch(cache, disk, fr.filePath)
                    localSymbol == FindSymbol(r.result.symbols, fr.exportedName)
                IN  /\ visited' = visited \cup {key}
                    /\ processed' = Append(processed, key)
                    /\ cache' = r.cache
                    /\ IF r.result.errors # <<>> THEN Pop(None)
                       ELSE IF localSymbol # None
                       THEN Pop(Some(ResolvedHere(fr.filePath, fr.exportedName,
                                                  localSymbol[1])))
                       ELSE Continue([fr EXCEPT !.at = "loop",
                                                !.result = Some(r.result), !.i = 1])
    /\ UNCHANGED <<disk, pf, dirty, request, toolVars>>

\* one iteration of `for (const exp of result.exports)`, up to the recursive
\* call it makes; past the last record, return null
FeLoop ==
    /\ fePc = "run" /\ Top.at = "loop"
    /\ LET fr == Top
           exports == fr.result[1].exports
       IN  IF fr.i > Len(exports) THEN Pop(None)
           ELSE LET exp == exports[fr.i]
                    call == RecursiveCall(disk, fr.filePath, fr.exportedName, exp)
                    dflt == DefaultSymbol(fr.result[1], fr.exportedName, exp)
                IN  IF call # None
                    THEN /\ stack' = Append([stack EXCEPT ![Len(stack)].at = "resume"],
                                            Frame(call[1].filePath, call[1].exportedName,
                                                  fr.depth + 1))
                         /\ UNCHANGED <<ret, fePc>>
                    ELSE IF dflt # None
                    THEN Pop(Some(ResolvedHere(fr.filePath, fr.exportedName, dflt[1])))
                    ELSE Continue([fr EXCEPT !.i = @ + 1])
    /\ UNCHANGED <<visited, processed, request, cacheVars, toolVars>>

\* the recursive call has returned: a failed branch ends the loop
FeResume_GivesUp ==
    /\ fePc = "run" /\ Top.at = "resume"
    /\ IF ret # None
       THEN Pop(Some(Unshift(ret[1], Top.filePath)))
       ELSE Pop(None)
    /\ UNCHANGED <<visited, processed, request, cacheVars, toolVars>>

\* the recursive call has returned: if (resolved) { unshift; return resolved },
\* else go on with the next record
FeResume ==
    /\ fePc = "run" /\ Top.at = "resume"
    /\ IF ret # None
       THEN Pop(Some(Unshift(ret[1], Top.filePath)))
       ELSE Continue([Top EXCEPT !.at = "loop", !.i = @ + 1])
    /\ UNCHANGED <<visited, processed, request, cacheVars, toolVars>>

(***************************************************************************)
(* The source trees followExport is run on.  Every file is readable and    *)
(* has modification time 1; nothing writes to the tree while               *)
(* followExport runs.                                                      *)
(***************************************************************************)
\* the longest chain of re-exporting files
MaxChain == 12

Tree(textOf) ==
    [abs \in {ToAbsolute(q) : q \in DOMAIN textOf} |-> File(1, textOf[ToRelative(abs)], TRUE)]

FnX == Decl("X", "function", 1)
ClassY == Decl("Y", "class", 2)

\* two files A.ts and B.ts (or A.ts alone), each with at most one
\* declaration and at most one export statement
SmallSources == {None, Some("A"), Some("B")}

SmallRecords ==
    {Named(l, Some(e), src) : l \in {None, Some("X"), Some("Y")}, e \in {"X", "Y"},
                              src \in SmallSources}
        \cup {All(src) : src \in SmallSources}
        \cup {Default(l) : l \in {None, Some("X")}}

SmallTexts ==
    {Text(sy, ex) : sy \in {<<>>, <<FnX>>, <<ClassY>>},
                    ex \in {<<>>} \cup {<<r>> : r \in SmallRecords}}
        \cup {EmptyText, ThrowingText}

SmallTrees ==
    {Tree([q \in {Path("", "A", ".ts"), Path("", "B", ".ts")} |->
              IF q.base = "A" THEN a ELSE b]) : a \in SmallTexts, b \in SmallTexts}
        \cup {Tree([q \in {Path("", "A", ".ts")} |-> a]) : a \in SmallTexts}

\* m0.ts re-exports from m1.ts, ... up to m<len>.ts, which declares X, or
\* declares nothing, or re-exports from m0.ts
Module(i) == "m" \o ToString(i)

ChainLink(kind, i) ==
    IF kind = "named" THEN Named(Some("X"), Some("X"), Some(Module(i)))
    ELSE All(Some(Module(i)))

ChainText(kind, end, len, i) ==
    IF i < len THEN Text(<<>>, <<ChainLink(kind, i + 1)>>)
    ELSE IF end = "declares" THEN Text(<<FnX>>, <<>>)
    ELSE IF end = "nothing" THEN Text(<<>>, <<>>)
    ELSE Text(<<>>, <<ChainLink(kind, 0)>>)

ChainTrees ==
    {Tree([q \in {Path("", Module(i), ".ts") : i \in 0..len} |->
              ChainText(kind, end, len, CHOOSE i \in 0..len : q.base = Module(i))]) :
        len \in 0..MaxChain, kind \in {"named", "all"},
        end \in {"declares", "nothing", "back"}}

\* A.ts re-exports X from './B'; any of B.tsx, B.js, B, B/index.ts and
\* B/index.js exist and declare X
ResolveTargets ==
    {Path("", "B", ".tsx"), Path("", "B", ".js"), Path("", "B", ""),
     Path("B", "index", ".ts"), Path("B", "index", ".js")}

ResolveTrees ==
    {Tree([q \in {Path("", "A", ".ts")} \cup targets |->
              IF q.base = "A"
              THEN Text(<<>>, <<Named(Some("X"), Some("X"), Some("B"))>>)
              ELSE Text(<<FnX>>, <<>>)]) : targets \in SUBSET ResolveTargets}

\* A.ts has two export statements, into B.ts and C.ts
TwoRecords ==
    {Named(Some("X"), Some("X"), Some("B")), Named(Some("Y"), Some("X"), Some("C")),
     All(Some("B")), All(Some("C")), Default(Some("Y"))}

TwoTexts ==
    {Text(<<FnX>>, <<>>), Text(<<ClassY>>, <<>>), Text(<<>>, <<All(Some("A"))>>),
     Text(<<>>, <<Named(Some("X"), Some("Y"), Some("B"))>>)}

TwoTrees ==
    {Tree([q \in {Path("", "A", ".ts"), Path("", "B", ".ts"), Path("", "C", ".ts")} |->
              IF q.base = "A" THEN Text(sy, <<r1, r2>>)
              ELSE IF q.base = "B" THEN b ELSE c]) :
        sy \in {<<>>, <<ClassY>>}, r1 \in TwoRecords, r2 \in TwoRecords,
        b \in TwoTexts, c \in TwoTexts}

ExportTrees == SmallTrees \cup ChainTrees \cup ResolveTrees \cup TwoTrees

InitExport ==
    /\ disk \in ExportTrees
    /\ cache = EmptyMap
    /\ pf = IdleFrame
    /\ dirty = FALSE
    /\ FeIdle
    /\ ToolsIdle

NextExport ==
    \/ \E abs \in DOMAIN disk, n \in Names : FeCall(ToRelative(abs), n)
    \/ FeEnter
    \/ FeLoop
    \/ FeResume

SpecExport == InitExport /\ [][NextExport]_vars

\* the trees of two files that hold nothing but re-exports of X, among
\* them the cyclic ones
ReExportTexts ==
    {Text(sy, <<r>>) : sy \in {<<>>, <<FnX>>},
                       r \in {Named(l, Some("X"), Some(m)) : l \in {None, Some("X")},
                                                              m \in {"A", "B"}}
                              \cup {All(Some(m)) : m \in {"A", "B"}}}

ReExportTrees ==
    {Tree([q \in {Path("", "A", ".ts"), Path("", "B", ".ts")} |->
              IF q.base = "A" THEN a ELSE b]) :
        a \in ReExportTexts, b \in ReExportTexts}

InitReExport ==
    /\ disk \in ReExportTrees
    /\ cache = EmptyMap
    /\ pf = IdleFrame
    /\ dirty = FALSE
    /\ FeIdle
    /\ ToolsIdle

\* followExport on the re-export trees.  The call runs on: every call and
\* every loop iteration is followed by the next (the code is synchronous).
FairSpecReExport == InitReExport /\ [][NextExport]_vars /\ WF_vars(NextExport)

(***************************************************************************)
(* Properties of followExport.                                             *)
(***************************************************************************)
\* the outcome of parsing f as the tree stands
Parsed(f) == ParseFileDispatch(EmptyMap, disk, f).result

\* f parses and consists of one statement re-exporting X from module m
\* under the same name, and declares no X
ReExportsOnlyX(f, m) ==
    /\ IsFile(disk, f)
    /\ Parsed(f).errors = <<>>
    /\ FindSymbol(Parsed(f).symbols, "X") = None
    /\ Parsed(f).exports \in {<<Named(l, Some("X"), Some(m))>> : l \in {None, Some("X")}}

\* A.ts exports X from './B' and B.ts exports X from './A'
CycleTree ==
    /\ ReExportsOnlyX(Path("", "A", ".ts"), "B")
    /\ ReExportsOnlyX(Path("", "B", ".ts"), "A")
    /\ ResolveModulePath(disk, Path("", "A", ".ts"), "B") = Some(Path("", "B", ".ts"))
    /\ ResolveModulePath(disk, Path("", "B", ".ts"), "A") = Some(Path("", "A", ".ts"))

CycleRequest ==
    /\ CycleTree
    /\ request # None
    /\ request[1].exportedName = "X"

\* C6 (depth bound on a cycle): on a tree where A.ts re-exports X from B.ts
\* and B.ts re-exports X from A.ts, neither declaring X, every followExport
\* for X that is started ends, and it ends returning none; its recursion
\* stays within the depth bound.
C6_CycleReturnsNone ==
    /\ [](CycleRequest /\ fePc = "done" => ret = None)
    /\ [](CycleRequest => Len(stack) <= MAX_DEPTH + 2)
    /\ (CycleRequest /\ fePc = "run") ~> (fePc = "done" /\ ret = None)

C6_Witness ==
    /\ CycleRequest /\ fePc = "done"
    /\ Len(processed) = 2

\* the calls on the stack have depths 0, 1, 2, ...; none is deeper than
\* MAX_DEPTH + 1, and one that is past its guards is no deeper than MAX_DEPTH
DepthBounded ==
    \A i \in 1..Len(stack) :
        /\ stack[i].depth = i - 1
        /\ stack[i].depth <= MAX_DEPTH + 1
        /\ stack[i].at # "enter" => stack[i].depth <= MAX_DEPTH

\* no (file, name) pair was parsed twice
NoRepeat ==
    \A i, j \in 1..Len(processed) : processed[i] = processed[j] => i = j

\* the pairs followExport can be asked for
AllPairs == {<<ToRelative(abs), n>> : abs \in DOMAIN disk, n \in Names}

\* no file of the trees has more export statements than this
MaxRecords == 2

\* steps left to a call at its position: three per export record still to
\* try (the iteration, the guards of the call it makes, the resumption) and
\* one for leaving the loop
FrameSteps(fr) ==
    IF fr.at = "enter" THEN 1
    ELSE IF fr.at = "loop" THEN 3 * (Len(fr.result[1].exports) + 1 - fr.i) + 1
    ELSE 3 * (Len(fr.result[1].exports) - fr.i) + 2

RECURSIVE StackSteps(_)
StackSteps(st) ==
    IF st = <<>> THEN 0 ELSE FrameSteps(Head(st)) + StackSteps(Tail(st))

\* a bound on the steps followExport has left: those of the calls on the
\* stack and those of the pairs not yet visited
StepsLeft ==
    (IF fePc = "idle" THEN 2 ELSE 0) + StackSteps(stack)
        + (3 * MaxRecords + 1) * Cardinality(AllPairs \ visited)

\* until the top-level call has returned, a step of followExport is enabled
CanStep ==
    /\ fePc = "idle" => \E abs \in DOMAIN disk : IsFile(disk, ToRelative(abs))
    /\ fePc = "run" =>
          /\ stack # <<>>
          /\ Top.at \in {"enter", "loop", "resume"}
          /\ Top.at # "enter" => Top.result # None /\ Top.i >= 1
    /\ fePc = "done" => stack = <<>>

\* C7 (termination): within one top-level followExport no call past its
\* guards is deeper than 10 and none at all is deeper than 11, a call
\* entered with depth above 10 returns none without parsing, no (file, name)
\* pair is parsed twice, and the call ends: every step lowers a bound on
\* the steps left, and a step is possible until the top-level call returns.
C7_Terminates ==
    /\ []DepthBounded
    /\ []NoRepeat
    /\ [][(fePc = "run" /\ Top.at = "enter" /\ Top.depth > MAX_DEPTH) =>
            (ret' = None /\ processed' = processed /\ Len(stack') = Len(stack) - 1)]_vars
    /\ [][StepsLeft' < StepsLeft]_vars
    /\ []CanStep

C7_Witness ==
    /\ fePc = "run"
    /\ Top.depth = MAX_DEPTH + 1
    /\ Len(processed) = MAX_DEPTH + 1

\* C8 (original file and name): the record returned carries the file and
\* the name the top-level call was given, and the file that declares the
\* symbol as resolvedFile.
C8_OriginalIsRequested ==
    (fePc = "done" /\ ret # None) =>
        /\ ret[1].originalFile = request[1].filePath
        /\ ret[1].originalName = request[1].exportedName
        /\ ret[1].resolvedSymbol # None
        /\ ret[1].resolvedSymbol[1].file = ret[1].resolvedFile

\* g is the target of some re-export statement of f
ReExportsFrom(f, g) ==
    \E i \in 1..Len(Parsed(f).exports) :
        LET exp == Parsed(f).exports[i]
        IN  /\ exp.kind \in {"named", "all"}
            /\ Truthy(exp.source)
            /\ ResolveModulePath(disk, f, exp.source[1]) = Some(g)

\* C9 (export chain): the chain of a record returned starts with the file
\* requested, ends with resolvedFile, each file in it re-exports from the
\* next (one entry per hop), and it has at most 11 entries.
C9_ExportChain ==
    (fePc = "done" /\ ret # None) =>
        LET chain == ret[1].exportChain
        IN  /\ Len(chain) >= 1
            /\ Len(chain) <= MAX_DEPTH + 1
            /\ chain[1] = request[1].filePath
            /\ chain[Len(chain)] = ret[1].resolvedFile
            /\ \A i \in 1..(Len(chain) - 1) : ReExportsFrom(chain[i], chain[i + 1])

C9_Witness ==
    /\ fePc = "done" /\ ret # None
    /\ Len(ret[1].exportChain) = MAX_DEPTH + 1

\* the file requested declares the name requested
DeclaredLocally ==
    /\ request # None
    /\ FindSymbol(Parsed(request[1].filePath).symbols, request[1].exportedName) # None

\* C10 (local symbol first): when the file requested declares the name
\* requested, followExport returns that symbol with resolvedFile the file
\* requested and the chain <<file>>, and makes no recursive call and parses
\* no other file.
C10_LocalFirst ==
    DeclaredLocally =>
        /\ Len(stack) <= 1
        /\ Len(processed) <= 1
        /\ fePc = "done" =>
              LET f == request[1].filePath
                  n == request[1].exportedName
              IN  ret = Some([originalFile |-> f, originalName |-> n,
                              resolvedFile |-> f,
                              resolvedSymbol |-> FindSymbol(Parsed(f).symbols, n),
                              exportChain |-> <<f>>])

C10_Witness ==
    /\ DeclaredLocally /\ fePc = "done"
    /\ \E i \in 1..Len(Parsed(request[1].filePath).exports) :
          RecursiveCall(disk, request[1].filePath, request[1].exportedName,
                        Parsed(request[1].filePath).exports[i]) # None

\* the running call is about to examine an export record
AtRecord ==
    /\ fePc = "run" /\ Top.at = "loop"
    /\ Top.i <= Len(Top.result[1].exports)

CurrentRecord == Top.result[1].exports[Top.i]

\* C11 (named re-export): at a record `export { L as E } from src` whose
\* source resolves, followExport(file, E) calls itself on the resolved
\* target file with the name L, or E when the record has no local name,
\* and depth + 1; at a named record without a source, or with another
\* exported name, or whose source does not resolve, it makes no call.
C11_NamedReExport ==
    [][(AtRecord /\ CurrentRecord.kind = "named") =>
          LET exp == CurrentRecord
              fr == Top
              followed == /\ exp.exportedName = Some(fr.exportedName)
                          /\ exp.source # None
                          /\ exp.source[1] # ""
                          /\ ResolveModulePath(disk, fr.filePath, exp.source[1]) # None
          IN  IF followed
              THEN /\ Len(stack') = Len(stack) + 1
                   /\ stack'[Len(stack')].at = "enter"
                   /\ stack'[Len(stack')].filePath =
                         ResolveModulePath(disk, fr.filePath, exp.source[1])[1]
                   /\ stack'[Len(stack')].exportedName =
                         (IF exp.localName = None THEN fr.exportedName
                          ELSE exp.localName[1])
                   /\ stack'[Len(stack')].depth = fr.depth + 1
                   /\ visited' = visited
              ELSE /\ Len(stack') <= Len(stack)
                   /\ visited' = visited /\ processed' = processed]_vars

\* a call made through `export { Y as X } from ...`: the callee looks for
\* another name than its caller
C11_Witness ==
    /\ fePc = "run" /\ Len(stack) = 2
    /\ stack[1].exportedName = "X" /\ stack[2].exportedName = "Y"
    /\ stack[2].depth = 1
    /\ stack[2].filePath # stack[1].filePath

(***************************************************************************)
(* exportResolver.ts getAllReexportedSymbols                               *)
(***************************************************************************)
\* a call of getAllReexportedSymbols about to run its body
GaFrame(filePath, depth) ==
    [filePath |-> filePath, depth |-> depth, at |-> "enter", result |-> None,
     i |-> 0, symbols |-> <<>>]

GaTop == gaStack[Len(gaStack)]

\* the running call returns the list v to its caller
GaPop(v) ==
    /\ gaStack' = SubSeq(gaStack, 1, Len(gaStack) - 1)
    /\ gaRet' = v
    /\ gaPc' = IF Len(gaStack) = 1 THEN "done" ELSE "run"

\* the running call goes on, its locals now fr
GaContinue(fr) ==
    /\ gaStack' = [gaStack EXCEPT ![Len(gaStack)] = fr]
    /\ UNCHANGED <<gaRet, gaPc>>

\* if (depth > MAX_DEPTH) return []; if (visited.has(filePath)) return []
GaGuarded(depth, v, filePath) == depth > MAX_DEPTH \/ filePath \in v

\* the target of `export * from source`, if the record is one and it resolves
WildcardTarget(fs, filePath, exp) ==
    IF exp.kind = "all" /\ Truthy(exp.source)
    THEN ResolveModulePath(fs, filePath, exp.source[1])
    ELSE None

\* getAllReexportedSymbols(filePath) is called with visited = {} and depth = 0
GaCall(f) ==
    /\ gaPc = "idle"
    /\ IsFile(disk, f)
    /\ gaPc' = "run"
    /\ gaRoot' = Some(f)
    /\ gaStack' = <<GaFrame(f, 0)>>
    /\ gaVisited' = {}
    /\ UNCHANGED <<gaRet, gaParsed, cacheVars, feVars, sfVars, opVars, ssVars>>

\* the guards, parseFile, and symbols = [...result.symbols]
GaEnter ==
    /\ gaPc = "run" /\ GaTop.at = "enter"
    /\ LET fr == GaTop
       IN  IF GaGuarded(fr.depth, gaVisited, fr.filePath)
           THEN /\ GaPop(<<>>)
                /\ UNCHANGED <<gaVisited, cache, gaParsed>>
           ELSE LET r == ParseFileDispatch(cache, disk, fr.filePath)
                IN  /\ gaVisited' = gaVisited \cup {fr.filePath}
                    /\ gaParsed' = Append(gaParsed, fr.filePath)
                    /\ cache' = r.cache
                    /\ IF r.result.errors # <<>> THEN GaPop(<<>>)
                       ELSE GaContinue([fr EXCEPT !.at = "loop",
                                                  !.result = Some(r.result),
                                                  !.i = 1,
                                                  !.symbols = r.result.symbols])
    /\ UNCHANGED <<disk, pf, dirty, gaRoot, feVars, sfVars, opVars, ssVars>>

\* one iteration of `for (const exp of result.exports)`, up to the recursive
\* call it makes; past the last record, return symbols
GaLoop ==
    /\ gaPc = "run" /\ GaTop.at = "loop"
    /\ LET fr == GaTop
           exports == fr.result[1].exports
       IN  IF fr.i > Len(exports) THEN GaPop(fr.symbols)
           ELSE LET targetFile == WildcardTarget(disk, fr.filePath, exports[fr.i])
                IN  IF targetFile # None
                    THEN /\ gaStack' =
                              Append([gaStack EXCEPT ![Len(gaStack)].at = "resume"],
                                     GaFrame(targetFile[1], fr.depth + 1))
                         /\ UNCHANGED <<gaRet, gaPc>>
                    ELSE GaContinue([fr EXCEPT !.i = @ + 1])
    /\ UNCHANGED <<gaVisited, gaParsed, gaRoot, cacheVars, feVars, sfVars, opVars, ssVars>>

\* the recursive call has returned: symbols.push(...reexported)
GaResume ==
    /\ gaPc = "run" /\ GaTop.at = "resume"
    /\ GaContinue([GaTop EXCEPT !.at = "loop", !.i = @ + 1,
                                !.symbols = @ \o gaRet])
    /\ UNCHANGED <<gaVisited, gaParsed, gaRoot, cacheVars, feVars, sfVars, opVars, ssVars>>

(***************************************************************************)
(* The source trees getAllReexportedSymbols is run on.                     *)
(***************************************************************************)
\* A.ts, B.ts and C.ts each declare two symbols of their own and hold up to
\* two `export * from` statements into each other (cycles and files
\* reachable along two paths among them); C.ts may also fail to parse or
\* re-export by name only
StarFiles == {"A", "B", "C"}

StarExports ==
    {<<>>} \cup {<<All(Some(m))>> : m \in StarFiles}
        \cup {<<All(Some(m)), All(Some(n))>> : m \in StarFiles, n \in StarFiles}

StarText(base, exps) ==
    Text(<<Decl(base \o "1", "function", 1), Decl(base \o "2", "const", 2)>>, exps)

StarTrees ==
    {Tree([q \in {Path("", m, ".ts") : m \in StarFiles} |->
              IF q.base = "A" THEN StarText("A", a)
              ELSE IF q.base = "B" THEN StarText("B", b) ELSE c]) :
        a \in StarExports, b \in StarExports,
        c \in {StarText("C", e) : e \in StarExports}
                \cup {ThrowingText,
                      StarText("C", <<Named(Some("A1"), Some("A1"), Some("A"))>>)}}

\* m0.ts re-exports * from m1.ts, ... up to m<len>.ts; m0.ts has a second
\* `export * from` into m<to>.ts, before or after the first
DeepText(len, to, first, i) ==
    Text(<<FnX>>,
         IF i = 0 /\ len > 0
         THEN IF first THEN <<All(Some(Module(to))), All(Some(Module(1)))>>
              ELSE <<All(Some(Module(1))), All(Some(Module(to)))>>
         ELSE IF i < len THEN <<All(Some(Module(i + 1)))>>
         ELSE <<>>)

DeepTrees ==
    {Tree([q \in {Path("", Module(i), ".ts") : i \in 0..len} |->
              DeepText(len, to, first, CHOOSE i \in 0..len : q.base = Module(i))]) :
        len \in MAX_DEPTH..(MAX_DEPTH + 2), to \in (MAX_DEPTH - 1)..MAX_DEPTH,
        first \in BOOLEAN}

WildcardTrees == StarTrees \cup DeepTrees

InitWildcard ==
    /\ disk \in WildcardTrees
    /\ cache = EmptyMap
    /\ pf = IdleFrame
    /\ dirty = FALSE
    /\ FeIdle
    /\ ToolsIdle

NextWildcard ==
    \/ \E abs \in DOMAIN disk : GaCall(ToRelative(abs))
    \/ GaEnter
    \/ GaLoop
    \/ GaResume

SpecWildcard == InitWildcard /\ [][NextWildcard]_vars

\* the files `export * from` statements of f lead to
WildcardTargets(f) ==
    {g \in {ToRelative(abs) : abs \in DOMAIN disk} :
        \E i \in 1..Len(Parsed(f).exports) :
            WildcardTarget(disk, f, Parsed(f).exports[i]) = Some(g)}

\* the files within k wildcard hops of the files in S
RECURSIVE WithinHops(_, _)
WithinHops(S, k) ==
    IF k = 0 THEN S
    ELSE WithinHops(S \cup UNION {WildcardTargets(f) : f \in S}, k - 1)

\* the symbols of the files in S
SymbolsOf(S) ==
    UNION {{Parsed(f).symbols[i] : i \in 1..Len(Parsed(f).symbols)} : f \in S}

\* C12 (wildcard aggregation): the list getAllReexportedSymbols(root)
\* returns holds the symbols of root and of every file within MAX_DEPTH
\* `export * from` hops of root, each once.
C12_AllReachableOnce ==
    gaPc = "done" =>
        /\ {gaRet[i] : i \in 1..Len(gaRet)} = SymbolsOf(WithinHops({gaRoot[1]}, MAX_DEPTH))
        /\ \A i, j \in 1..Len(gaRet) : gaRet[i] = gaRet[j] => i = j

(***************************************************************************)
(* tools/searchFuzzy.ts.  A FuzzyResult is [file, range, symbol, score,    *)
(* reasons]; scores are in hundredths (1.0 is 100), reasons is a list of   *)
(* tags.                                                                   *)
(***************************************************************************)
FuzzyResult(file, range, symbol, score, reasons) ==
    [file |-> file, range |-> range, symbol |-> symbol, score |-> score,
     reasons |-> reasons]

\* mergeAndSort: const key = `${r.file}:${r.range}`
FuzzyKey(r) == <<r.file, r.range>>

\* [...new Set(list)]: the first occurrence of each element, in order
RECURSIVE Dedup(_)
Dedup(list) ==
    IF list = <<>> THEN <<>>
    ELSE LET init == Dedup(SubSeq(list, 1, Len(list) - 1))
             last == list[Len(list)]
         IN  IF \E i \in 1..Len(init) : init[i] = last THEN init
             ELSE Append(init, last)

\* map.get(key): the position of the entry with that key among the values
\* of the Map in insertion order, or 0
MapIndex(values, key) ==
    IF \E i \in 1..Len(values) : FuzzyKey(values[i]) = key
    THEN CHOOSE i \in 1..Len(values) : FuzzyKey(values[i]) = key
    ELSE 0

\* the merge loop without the union of the reasons
MergeOne_NoUnion(values, r) ==
    LET idx == MapIndex(values, FuzzyKey(r))
    IN  IF idx = 0 THEN Append(values, r)
        ELSE IF r.score > values[idx].score THEN [values EXCEPT ![idx] = r]
        ELSE values

\* one iteration of `for (const r of results)` of mergeAndSort; Map.set on
\* a key that is present keeps the entry's position
MergeOne(values, r) ==
    LET idx == MapIndex(values, FuzzyKey(r))
    IN  IF idx = 0 THEN Append(values, r)
        ELSE IF r.score > values[idx].score
        THEN [values EXCEPT
                 ![idx] = [r EXCEPT !.reasons = Dedup(r.reasons \o values[idx].reasons)]]
        ELSE [values EXCEPT ![idx].reasons = Dedup(@ \o r.reasons)]

\* Array.from(map.values()) after the loop
RECURSIVE MergeAll(_)
MergeAll(results) ==
    IF results = <<>> THEN <<>>
    ELSE MergeOne(MergeAll(SubSeq(results, 1, Len(results) - 1)), results[Len(results)])

\* the sort left out
SortByScore_Unsorted(list) == list

\* merged.sort((a, b) => b.score - a.score): stable, descending by score
RECURSIVE SortByScore(_)
SortByScore(list) ==
    IF list = <<>> THEN <<>>
    ELSE LET init == SortByScore(SubSeq(list, 1, Len(list) - 1))
             last == list[Len(list)]
             k == Cardinality({i \in 1..Len(init) : init[i].score >= last.score})
         IN  SubSeq(init, 1, k) \o <<last>> \o SubSeq(init, k + 1, Len(init))

\* Array.prototype.slice(0, end) for an integer end: a negative end counts
\* from the end of the list
Slice0(list, end) ==
    LET n == Len(list)
        stop == IF end < 0 THEN (IF n + end < 0 THEN 0 ELSE n + end)
                ELSE IF end > n THEN n ELSE end
    IN  SubSeq(list, 1, stop)

MergeAndSort(results, limit) == Slice0(SortByScore(MergeAll(results)), limit)

(***************************************************************************)
(* tools/registerAlias.ts.  A target string is the list of its parts       *)
(* around the first '#': <<file>> for "file" and <<file, symbol>> for      *)
(* "file#symbol" (<<file, "">> for "file#").                               *)
(***************************************************************************)
\* the terms of the model, in localeCompare order
Terms == <<"deck", "flip card">>

TermRank(term) == CHOOSE i \in 1..Len(Terms) : Terms[i] = term

\* store.aliases.find((a) => a.term === term): its position, or 0
AliasIndex(store, term) ==
    IF \E i \in 1..Len(store) : store[i].term = term
    THEN CHOOSE i \in 1..Len(store) : store[i].term = term
    ELSE 0

\* saveAliases: store.aliases.sort((a, b) => a.term.localeCompare(b.term))
RECURSIVE SortByTerm(_)
SortByTerm(store) ==
    IF store = <<>> THEN <<>>
    ELSE LET init == SortByTerm(SubSeq(store, 1, Len(store) - 1))
             last == store[Len(store)]
             k == Cardinality({i \in 1..Len(init) :
                                  TermRank(init[i].term) <= TermRank(last.term)})
         IN  SubSeq(init, 1, k) \o <<last>> \o SubSeq(init, k + 1, Len(init))

\* registerAlias: the store it saves
RegisterAlias(store, term, target) ==
    LET idx == AliasIndex(store, term)
    IN  SortByTerm(
            IF idx = 0 THEN Append(store, [term |-> term, targets |-> <<target>>])
            ELSE IF \E i \in 1..Len(store[idx].targets) : store[idx].targets[i] = target
            THEN store
            ELSE [store EXCEPT ![idx].targets = Append(@, target)])

\* lookupAlias: entry?.targets ?? []
LookupAlias(store, term) ==
    IF AliasIndex(store, term) = 0 THEN <<>> ELSE store[AliasIndex(store, term)].targets

(***************************************************************************)
(* searchFuzzy.ts: the recall strategies                                   *)
(***************************************************************************)
\* fileReader.ts formatRange: `[${startLine}:${endLine}]`
FormatRange(startLine, endLine) == <<startLine, endLine>>

\* SymbolInfo.range of a declaration, which takes one line in the model
RangeOf(sym) == FormatRange(sym.startLine, sym.startLine)

\* parseTarget: split at the first '#'; without one there is no symbol
ParseTarget(target) ==
    IF Len(target) >= 2
    THEN [file |-> target[1], symbol |-> Some(target[2])]
    ELSE [file |-> target[1], symbol |-> None]

\* the alias candidate scored below every definition match
AliasCandidates_LowScore(result, file, symbol) ==
    IF Truthy(symbol)
    THEN LET matched == FindSymbol(result.symbols, symbol[1])
         IN  IF matched = None THEN <<>>
             ELSE <<FuzzyResult(matched[1].file, RangeOf(matched[1]),
                                Some(matched[1].name), 50, <<"alias_hit">>)>>
    ELSE IF Len(result.symbols) > 0
    THEN <<FuzzyResult(file, FormatRange(1, 100), Some(result.symbols[1].name),
                       95, <<"alias_hit">>)>>
    ELSE <<>>

\* the body of aliasRecall's loop: the candidates one target contributes
AliasCandidates(result, file, symbol) ==
    IF Truthy(symbol)
    THEN LET matched == FindSymbol(result.symbols, symbol[1])
         IN  IF matched = None THEN <<>>
             ELSE <<FuzzyResult(matched[1].file, RangeOf(matched[1]),
                                Some(matched[1].name), 100, <<"alias_hit">>)>>
    ELSE IF Len(result.symbols) > 0
    THEN <<FuzzyResult(file, FormatRange(1, 100), Some(result.symbols[1].name),
                       95, <<"alias_hit">>)>>
    ELSE <<>>

\* aliasRecall's loop over the targets: the cache after it and the results
RECURSIVE AliasLoop(_, _, _)
AliasLoop(c, fs, targets) ==
    IF targets = <<>> THEN [cache |-> c, results |-> <<>>]
    ELSE LET before == AliasLoop(c, fs, SubSeq(targets, 1, Len(targets) - 1))
             t == ParseTarget(targets[Len(targets)])
             parsed == ParseFileDispatch(before.cache, fs, t.file)
         IN  [cache |-> parsed.cache,
              results |-> before.results
                            \o AliasCandidates(parsed.result, t.file, t.symbol)]

AliasRecall(c, fs, store, query) == AliasLoop(c, fs, LookupAlias(store, query))

\* symbolRecall: the candidate built for a symbol searchSymbol found
SymbolCandidate(sym, isExact) ==
    FuzzyResult(sym.file, RangeOf(sym), Some(sym.name),
                IF isExact THEN 90 ELSE 70,
                IF isExact THEN <<"definition_exact">> ELSE <<"definition_match">>)

\* fileNameRecall: the candidate built for a file glob found
FileCandidate(file, isExact) ==
    FuzzyResult(file, FormatRange(1, 50), None,
                IF isExact THEN 60 ELSE 40, <<"filename_match">>)

\* textRecall: the candidate built for a match of the text search
TextCandidate(file, line) ==
    FuzzyResult(file, FormatRange(IF line - 5 < 1 THEN 1 ELSE line - 5, line + 10),
                None, 30, <<"text_hit">>)

(***************************************************************************)
(* searchFuzzy.ts searchFuzzy.  aliasRecall has no await: it runs to its   *)
(* end inside the call and its promise is fulfilled from the start.  The   *)
(* other three strategies wait for the text search or the directory walk   *)
(* and end in any order, with what those find; symbolRecall and textRecall *)
(* reject when the search process cannot be spawned (ripgrep.ts            *)
(* `rg.on('error', reject)`).                                              *)
(***************************************************************************)
\* the largest limit searchFuzzy and searchSymbol are called with
MaxLimit == 2

\* limit is any number the schema lets through (z.number())
Limits == (0 - 1)..MaxLimit

StrategyNames == {Strategies[i] : i \in 1..Len(Strategies)}

\* the strategies that await searchPattern
Rejectable == {"symbol", "text"}

\* Promise.all fulfilling as soon as one promise is fulfilled
Joined_Any(strat) == \E n \in StrategyNames \ {"alias"} : strat[n].status = "fulfilled"

\* Promise.all is fulfilled: every promise is
Joined(strat) == \A n \in StrategyNames : strat[n].status = "fulfilled"

\* [...aliasResults, ...symbolResults, ...fileResults, ...textResults]
Spread(strat) ==
    strat["alias"].results \o strat["symbol"].results
        \o strat["file"].results \o strat["text"].results

CardsTs == Path("", "cards", ".ts")
BrokenTs == Path("", "broken", ".ts")

\* cards.ts declares flipCard and Deck; broken.ts does not parse
FuzzyTree ==
    Tree([q \in {CardsTs, BrokenTs} |->
             IF q = CardsTs
             THEN Text(<<Decl("flipCard", "function", 1), Decl("Deck", "class", 2)>>, <<>>)
             ELSE ThrowingText])

AliasTargets ==
    {<<CardsTs, "flipCard">>, <<CardsTs>>, <<BrokenTs, "flipCard">>}

\* what the strategies that search the workspace can come back with
Outcomes(fs, n) ==
    LET syms == Extract(CardsTs, fs[ToAbsolute(CardsTs)].content).symbols
    IN  IF n = "symbol"
        THEN {<<>>, <<SymbolCandidate(syms[1], TRUE)>>, <<SymbolCandidate(syms[1], FALSE)>>,
              <<SymbolCandidate(syms[2], FALSE), SymbolCandidate(syms[1], TRUE)>>}
        ELSE IF n = "file"
        THEN {<<>>, <<FileCandidate(CardsTs, TRUE)>>, <<FileCandidate(BrokenTs, FALSE)>>}
        ELSE {<<>>, <<TextCandidate(CardsTs, 1)>>,
              <<TextCandidate(CardsTs, 1), TextCandidate(BrokenTs, 7)>>}

\* the most targets registered in all
MaxAliases == 2

RECURSIVE TargetCount(_)
TargetCount(store) ==
    IF store = <<>> THEN 0 ELSE Len(Head(store).targets) + TargetCount(Tail(store))

\* the tool register_alias, between searches
RegisterAliasCall(term, target) ==
    /\ sfPc = "idle"
    /\ TargetCount(aliases) < MaxAliases
    /\ aliases' = RegisterAlias(aliases, term, target)
    /\ UNCHANGED <<sfPc, sfInput, sfStrat, allResults, sfOut>>
    /\ UNCHANGED <<cacheVars, feVars, gaVars, opVars, ssVars>>

\* searchFuzzy up to `await Promise.all([...])`
SfCall(query, limit) ==
    /\ sfPc = "idle"
    /\ LET r == AliasRecall(cache, disk, aliases, query)
       IN  /\ cache' = r.cache
           /\ sfStrat' = [n \in StrategyNames |->
                            IF n = "alias"
                            THEN [status |-> "fulfilled", results |-> r.results]
                            ELSE [status |-> "pending", results |-> <<>>]]
    /\ sfPc' = "awaiting"
    /\ sfInput' = Some([query |-> query, limit |-> limit])
    /\ UNCHANGED <<aliases, allResults, sfOut>>
    /\ UNCHANGED <<disk, pf, dirty, feVars, gaVars, opVars, ssVars>>

\* a strategy ends with results; when it is the last one, searchFuzzy goes
\* on past the await: it spreads the four lists, merges and returns
StratFulfil(n, results) ==
    /\ sfStrat[n].status = "pending"
    /\ sfStrat' = [sfStrat EXCEPT ![n] = [status |-> "fulfilled", results |-> results]]
    /\ IF sfPc = "awaiting" /\ Joined(sfStrat')
       THEN /\ allResults' = Spread(sfStrat')
            /\ sfOut' = MergeAndSort(allResults', sfInput[1].limit)
            /\ sfPc' = "returned"
       ELSE UNCHANGED <<allResults, sfOut, sfPc>>
    /\ UNCHANGED <<aliases, sfInput>>
    /\ UNCHANGED <<cacheVars, feVars, gaVars, opVars, ssVars>>

\* a strategy fails: Promise.all rejects at the first rejection and the
\* await in searchFuzzy throws, the other strategies running on
StratReject(n) ==
    /\ sfStrat[n].status = "pending"
    /\ sfStrat' = [sfStrat EXCEPT ![n] = [status |-> "rejected", results |-> <<>>]]
    /\ sfPc' = IF sfPc = "awaiting" THEN "rejected" ELSE sfPc
    /\ UNCHANGED <<aliases, sfInput, allResults, sfOut>>
    /\ UNCHANGED <<cacheVars, feVars, gaVars, opVars, ssVars>>

InitFuzzy ==
    /\ disk = FuzzyTree
    /\ cache = EmptyMap
    /\ pf = IdleFrame
    /\ dirty = FALSE
    /\ FeIdle
    /\ ToolsIdle

NextFuzzy ==
    \/ \E i \in 1..Len(Terms), target \in AliasTargets : RegisterAliasCall(Terms[i], target)
    \/ \E i \in 1..Len(Terms), limit \in Limits : SfCall(Terms[i], limit)
    \/ \E n \in StrategyNames \ {"alias"} :
          \E results \in Outcomes(disk, n) : StratFulfil(n, results)
    \/ \E n \in Rejectable : StratReject(n)

SpecFuzzy == InitFuzzy /\ [][NextFuzzy]_vars

(***************************************************************************)
(* mergeAndSort on its own: any list of candidates, any limit.             *)
(***************************************************************************)
\* the longest list handed to mergeAndSort
MaxResults == 3

MergeCandidates ==
    {FuzzyResult(CardsTs, range, None, score, reasons) :
        range \in {FormatRange(1, 1), FormatRange(2, 2)},
        score \in {70, 90},
        reasons \in {<<"definition_match">>, <<"alias_hit">>, <<"alias_hit", "text_hit">>}}

MergeInputs == UNION {[1..n -> MergeCandidates] : n \in 0..MaxResults}

InitMerge ==
    /\ disk = FuzzyTree
    /\ cache = EmptyMap
    /\ pf = IdleFrame
    /\ dirty = FALSE
    /\ FeIdle
    /\ GaIdle
    /\ SsIdle
    /\ OpIdle
    /\ aliases = <<>>
    /\ sfPc = "merging"
    /\ sfInput \in {Some([query |-> "", limit |-> limit]) : limit \in Limits}
    /\ sfStrat = [n \in StrategyNames |-> [status |-> "idle", results |-> <<>>]]
    /\ allResults \in MergeInputs
    /\ sfOut = <<>>

\* return mergeAndSort(allResults, limit)
MergeAndSortCall ==
    /\ sfPc = "merging"
    /\ sfOut' = MergeAndSort(allResults, sfInput[1].limit)
    /\ sfPc' = "returned"
    /\ UNCHANGED <<aliases, sfInput, sfStrat, allResults>>
    /\ UNCHANGED <<cacheVars, feVars, gaVars, opVars, ssVars>>

NextMerge == MergeAndSortCall

SpecMerge == InitMerge /\ [][NextMerge]_vars

\* the candidates of the input that share r's (file, range)
Colliding(r) == {i \in 1..Len(allResults) : FuzzyKey(allResults[i]) = FuzzyKey(r)}

\* the tags of a list of reasons
Tags(reasons) == {reasons[i] : i \in 1..Len(reasons)}

\* C13 (fuzzy merge): the list mergeAndSort returns holds at most one
\* candidate per (file, range), exactly one when the limit does not
\* truncate; its score is the maximum of the scores of the candidates of
\* the input with that key and its reasons are the union of their tags,
\* each once, in whatever order the candidates come.
C13_MergeMaxAndUnion ==
    sfPc = "returned" =>
        /\ \A i, j \in 1..Len(sfOut) : FuzzyKey(sfOut[i]) = FuzzyKey(sfOut[j]) => i = j
        /\ \A i \in 1..Len(sfOut) :
              /\ Colliding(sfOut[i]) # {}
              /\ \E k \in Colliding(sfOut[i]) : sfOut[i].score = allResults[k].score
              /\ \A k \in Colliding(sfOut[i]) : sfOut[i].score >= allResults[k].score
              /\ Tags(sfOut[i].reasons) =
                    UNION {Tags(allResults[k].reasons) : k \in Colliding(sfOut[i])}
              /\ Cardinality(Tags(sfOut[i].reasons)) = Len(sfOut[i].reasons)
        /\ sfInput[1].limit >= Len(allResults) =>
              \A k \in 1..Len(allResults) :
                  \E i \in 1..Len(sfOut) : FuzzyKey(sfOut[i]) = FuzzyKey(allResults[k])

\* scores 70 {definition_match} and 90 {alias_hit} on one key, the lower
\* score first, merged into one candidate
C13_Witness ==
    /\ sfPc = "returned"
    /\ Len(allResults) = 2
    /\ FuzzyKey(allResults[1]) = FuzzyKey(allResults[2])
    /\ allResults[1].score = 70 /\ allResults[1].reasons = <<"definition_match">>
    /\ allResults[2].score = 90 /\ allResults[2].reasons = <<"alias_hit">>
    /\ Len(sfOut) = 1
    /\ sfOut[1].score = 90
    /\ Tags(sfOut[1].reasons) = {"definition_match", "alias_hit"}

\* the score the merge gives the key of the input's candidate k
MergedScore(k) ==
    CHOOSE sc \in {allResults[j].score : j \in Colliding(allResults[k])} :
        \A j \in Colliding(allResults[k]) : sc >= allResults[j].score

\* the candidate k of the input has no candidate of its key in the output
Dropped(k) == \A i \in 1..Len(sfOut) : FuzzyKey(sfOut[i]) # FuzzyKey(allResults[k])

\* C14 (limit, keys, order): the list searchFuzzy returns has at most
\* `limit` candidates (none when limit is below one), no two of them with
\* the same (file, range), in non-increasing order of score, and a
\* candidate is dropped only if every candidate kept scores at least as
\* high.
C14_LimitDedupOrder ==
    sfPc = "returned" =>
        /\ Len(sfOut) <= sfInput[1].limit \/ sfOut = <<>>
        /\ \A i, j \in 1..Len(sfOut) : FuzzyKey(sfOut[i]) = FuzzyKey(sfOut[j]) => i = j
        /\ \A i, j \in 1..Len(sfOut) : i < j => sfOut[i].score >= sfOut[j].score
        /\ \A k \in 1..Len(allResults) :
              Dropped(k) => \A i \in 1..Len(sfOut) : sfOut[i].score >= MergedScore(k)

\* every strategy has ended, one way or the other
AllSettled == \A n \in StrategyNames : sfStrat[n].status \in {"fulfilled", "rejected"}

\* C15 (strategy failure isolation): once the four strategies have ended,
\* one or more of them by failing, searchFuzzy has returned the merge of
\* what the others found, the failed ones contributing nothing.
C15_FailureIsolated ==
    (sfPc # "idle" /\ AllSettled /\ \E n \in StrategyNames : sfStrat[n].status = "rejected") =>
        /\ sfPc = "returned"
        /\ sfOut = MergeAndSort(Spread(sfStrat), sfInput[1].limit)

\* C16 (join point): searchFuzzy has returned only when all four strategies
\* are fulfilled, with the merge of their four lists; allResults and the
\* returned list are written only in a step that leaves no strategy
\* running.
C16_JoinPoint ==
    /\ [](sfPc = "returned" =>
            /\ \A n \in StrategyNames : sfStrat[n].status = "fulfilled"
            /\ allResults = Spread(sfStrat)
            /\ sfOut = MergeAndSort(allResults, sfInput[1].limit))
    /\ [][(allResults' # allResults \/ sfOut' # sfOut \/ sfPc' = "returned") =>
            \A n \in StrategyNames : sfStrat'[n].status # "pending"]_vars

\* returned with candidates of all four strategies
C16_Witness ==
    /\ sfPc = "returned"
    /\ \A n \in StrategyNames : sfStrat[n].results # <<>>
    /\ Len(sfOut) >= 2

\* the query is a term with a target "file#symbol" whose file parses and
\* declares the symbol
AliasResolves ==
    /\ sfInput # None
    /\ \E i \in 1..Len(LookupAlias(aliases, sfInput[1].query)) :
          LET t == ParseTarget(LookupAlias(aliases, sfInput[1].query)[i])
          IN  /\ Truthy(t.symbol)
              /\ Parsed(t.file).errors = <<>>
              /\ FindSymbol(Parsed(t.file).symbols, t.symbol[1]) # None

\* C17 (alias hit ranks first): when the query is a registered term whose
\* target "file#symbol" resolves and limit >= 1, the first candidate
\* searchFuzzy returns has score 1.0 and alias_hit among its reasons,
\* whatever the other strategies found.
C17_AliasFirst ==
    (sfPc = "returned" /\ AliasResolves /\ sfInput[1].limit >= 1) =>
        /\ Len(sfOut) >= 1
        /\ sfOut[1].score = 100
        /\ "alias_hit" \in Tags(sfOut[1].reasons)

\* the symbol strategy found the same symbol: one candidate, both reasons
C17_Witness ==
    /\ sfPc = "returned" /\ AliasResolves /\ sfInput[1].limit >= 1
    /\ sfStrat["symbol"].results # <<>>
    /\ sfStrat["text"].results # <<>>
    /\ Tags(sfOut[1].reasons) = {"alias_hit", "definition_exact"}

(***************************************************************************)
(* parseFileForSymbol of the extractors.  Where the letters of a name      *)
(* matter, a name is the list of its characters.                           *)
(***************************************************************************)
\* String.prototype.toLowerCase on the letters of the model
UpperLetters == <<"A", "B", "C", "E", "H", "J", "L", "M", "O", "P", "S", "T", "V", "X", "Y">>

LowerLetters == <<"a", "b", "c", "e", "h", "j", "l", "m", "o", "p", "s", "t", "v", "x", "y">>

LowerChar(ch) ==
    IF \E i \in 1..Len(UpperLetters) : UpperLetters[i] = ch
    THEN LowerLetters[CHOOSE i \in 1..Len(UpperLetters) : UpperLetters[i] = ch]
    ELSE ch

ToLowerCase(str) == [i \in 1..Len(str) |-> LowerChar(str[i])]

\* String.prototype.includes
Includes(str, part) ==
    \E k \in 0..(Len(str) - Len(part)) : SubSeq(str, k + 1, k + Len(part)) = part

\* const typeMatch = !type || s.kind === type
TypeMatch(kind, type) == ~Truthy(type) \/ kind = type[1]

\* solidity.ts, python.ts, vue.ts, html.ts, css.ts:
\* s.name.toLowerCase().includes(query.toLowerCase())
NameMatch(name, query) == Includes(ToLowerCase(name), ToLowerCase(query))

\* typescript.ts: s.name === symbolName || s.name.includes(symbolName)
NameMatchTs(name, symbolName) == name = symbolName \/ Includes(name, symbolName)

\* the extensions typescriptParser registers
TsExtensions == {".ts", ".tsx", ".js", ".jsx"}

\* parser.parseFileForSymbol of the extractor registered for p
ExtractorParseFileForSymbol(c, fs, p, query, type) ==
    LET r == ParseFile(c, fs, p)
        Keep(sym) ==
            /\ IF p.ext \in TsExtensions THEN NameMatchTs(sym.name, query)
               ELSE NameMatch(sym.name, query)
            /\ TypeMatch(sym.kind, type)
    IN  [cache |-> r.cache, symbols |-> SelectSeq(r.result.symbols, Keep)]

\* parsers/index.ts parseFileForSymbol
ParseFileForSymbol(c, fs, p, query, type) ==
    IF GetParserForFile(p) = None THEN [cache |-> c, symbols |-> <<>>]
    ELSE ExtractorParseFileForSymbol(c, fs, p, query, type)

\* names, queries and kinds of the model
FilterNames == {<<"a", "b">>, <<"A", "b">>, <<"b", "a", "B">>, <<"b">>}

FilterQueries == {<<"a", "b">>, <<"A", "B">>, <<"b">>, <<>>}

FilterTypes == {None, Some("function"), Some("class")}

\* one file of each of four extensions, with two declarations
FilterPaths ==
    {Path("", "m", ".ts"), Path("", "m", ".sol"), Path("", "m", ".py"),
     Path("", "m", ".txt")}

FilterTrees ==
    {Tree([q \in FilterPaths |->
              Text(<<Decl(n1, "function", 1), Decl(n2, "class", 2)>>, <<>>)]) :
        n1 \in FilterNames, n2 \in FilterNames}
        \cup {Tree([q \in FilterPaths |-> ThrowingText])}

InitFilter ==
    /\ disk \in FilterTrees
    /\ cache = EmptyMap
    /\ pf = IdleFrame
    /\ dirty = FALSE
    /\ FeIdle
    /\ GaIdle
    /\ SfIdle
    /\ OpIdle
    /\ ssPc = "filter"
    /\ ssInput \in {Some([query |-> q, type |-> t, limit |-> 0, followExports |-> FALSE]) :
                       q \in FilterQueries, t \in FilterTypes}
    /\ candidateFiles \in {<<q>> : q \in FilterPaths}
    /\ ssI = 1
    /\ allSymbols = <<>>
    /\ seen = {}
    /\ ssOut = <<>>

\* parseFileForSymbol(candidateFiles[1], query, type)
ParseFileForSymbolCall ==
    /\ ssPc = "filter"
    /\ LET r == ParseFileForSymbol(cache, disk, candidateFiles[1],
                                   ssInput[1].query, ssInput[1].type)
       IN  /\ cache' = r.cache
           /\ allSymbols' = r.symbols
    /\ ssPc' = "filtered"
    /\ UNCHANGED <<ssInput, candidateFiles, ssI, seen, ssOut>>
    /\ UNCHANGED <<disk, pf, dirty, feVars, gaVars, sfVars, opVars>>

NextFilter == ParseFileForSymbolCall

SpecFilter == InitFilter /\ [][NextFilter]_vars

\* the i-th symbol of the parse matches the query whatever the case of the
\* letters, and the kind when one is given
Matches(sym) ==
    /\ Includes(ToLowerCase(sym.name), ToLowerCase(ssInput[1].query))
    /\ ssInput[1].type # None => sym.kind = ssInput[1].type[1]

\* C20 (parseFileForSymbol): for a file with a registered extractor the
\* list returned holds exactly the symbols of the file's parse whose name
\* contains the query, letter case ignored, and whose kind is the one
\* given, if one is given.
C20_CaseInsensitiveFilter ==
    (ssPc = "filtered" /\ GetParserForFile(candidateFiles[1]) # None) =>
        /\ \A i \in 1..Len(allSymbols) :
              /\ Matches(allSymbols[i])
              /\ \E k \in 1..Len(Parsed(candidateFiles[1]).symbols) :
                    Parsed(candidateFiles[1]).symbols[k] = allSymbols[i]
        /\ \A k \in 1..Len(Parsed(candidateFiles[1]).symbols) :
              Matches(Parsed(candidateFiles[1]).symbols[k]) =>
                  \E i \in 1..Len(allSymbols) :
                      allSymbols[i] = Parsed(candidateFiles[1]).symbols[k]

(***************************************************************************)
(* tools/searchSymbol.ts searchSymbol.  The candidate files are what the   *)
(* text search reports: distinct files, in any order.                      *)
(***************************************************************************)
\* the number of '/' in a directory of the model, plus one; none for ""
DirSegments(dir) == IF dir = "" THEN 0 ELSE IF dir = "src/lib" THEN 2 ELSE 1

\* a.file.split('/').length
SegmentCount(file) == DirSegments(file.dir) + 1

\* const aExact = a.name === query ? 0 : 1
Exactness(sym, query) == IF sym.name = query THEN 0 ELSE 1

\* the comparator of allSymbols.sort
Compare(a, b, query) ==
    IF Exactness(a, query) # Exactness(b, query)
    THEN Exactness(a, query) - Exactness(b, query)
    ELSE SegmentCount(a.file) - SegmentCount(b.file)

\* allSymbols.sort(comparator): stable
RECURSIVE SortSymbols(_, _)
SortSymbols(list, query) ==
    IF list = <<>> THEN <<>>
    ELSE LET init == SortSymbols(SubSeq(list, 1, Len(list) - 1), query)
             last == list[Len(list)]
             k == Cardinality({i \in 1..Len(init) : Compare(init[i], last, query) <= 0})
         IN  SubSeq(init, 1, k) \o <<last>> \o SubSeq(init, k + 1, Len(init))

\* `${symbol.file}:${symbol.name}:${symbol.location.startLine}`
SymbolKey(sym) == <<sym.file, sym.name, sym.startLine>>

\* searchSymbol without the check of `seen`
SeenHas_Never(s, key) == FALSE

\* seen.has(key)
SeenHas(s, key) == key \in s

\* if (seen.has(key)) continue; seen.add(key); allSymbols.push(symbol),
\* for the symbols of a list in order
RECURSIVE PushNew(_, _, _)
PushNew(all, s, symbols) ==
    IF symbols = <<>> THEN [allSymbols |-> all, seen |-> s]
    ELSE LET before == PushNew(all, s, SubSeq(symbols, 1, Len(symbols) - 1))
             symbol == symbols[Len(symbols)]
         IN  IF SeenHas(before.seen, SymbolKey(symbol)) THEN before
             ELSE [allSymbols |-> Append(before.allSymbols, symbol),
                   seen |-> before.seen \cup {SymbolKey(symbol)}]

\* the end of an iteration without the early break
Advance_NoBreak(all) ==
    IF ssI = Len(candidateFiles)
    THEN /\ ssPc' = "done"
         /\ ssOut' = Slice0(SortSymbols(all, ssInput[1].query), ssInput[1].limit)
         /\ ssI' = ssI
    ELSE /\ ssPc' = "extract"
         /\ ssI' = ssI + 1
         /\ ssOut' = ssOut

\* the end of an iteration over candidateFiles: break when twice the limit
\* has accumulated; after the loop, sort, slice and return
Advance(all) ==
    IF Len(all) >= ssInput[1].limit * 2 \/ ssI = Len(candidateFiles)
    THEN /\ ssPc' = "done"
         /\ ssOut' = Slice0(SortSymbols(all, ssInput[1].query), ssInput[1].limit)
         /\ ssI' = ssI
    ELSE /\ ssPc' = "extract"
         /\ ssI' = ssI + 1
         /\ ssOut' = ssOut

\* searchSymbol up to the loop; no candidate file: return []
SsCall(input, files) ==
    /\ ssPc = "idle"
    /\ ssInput' = Some(input)
    /\ candidateFiles' = files
    /\ IF files = <<>> THEN ssPc' = "done" /\ ssI' = 0
       ELSE ssPc' = "extract" /\ ssI' = 1
    /\ UNCHANGED <<allSymbols, seen, ssOut>>
    /\ UNCHANGED <<cacheVars, feVars, gaVars, sfVars, opVars>>

\* parseFileForSymbol on the candidate file and the loop over its symbols
SsExtract ==
    /\ ssPc = "extract"
    /\ LET file == candidateFiles[ssI]
           r == ParseFileForSymbol(cache, disk, file, ssInput[1].query, ssInput[1].type)
           pushed == PushNew(allSymbols, seen, r.symbols)
       IN  /\ cache' = r.cache
           /\ allSymbols' = pushed.allSymbols
           /\ seen' = pushed.seen
           /\ IF ssInput[1].followExports
              THEN ssPc' = "follow" /\ UNCHANGED <<ssI, ssOut>>
              ELSE Advance(pushed.allSymbols)
    /\ UNCHANGED <<ssInput, candidateFiles>>
    /\ UNCHANGED <<disk, pf, dirty, feVars, gaVars, sfVars, opVars>>

\* resolveSymbolThroughExports(file, query) calls followExport(file, query)
SsFollow ==
    /\ ssPc = "follow"
    /\ fePc' = "run"
    /\ request' = Some([filePath |-> candidateFiles[ssI],
                        exportedName |-> ssInput[1].query])
    /\ stack' = <<Frame(candidateFiles[ssI], ssInput[1].query, 0)>>
    /\ visited' = {}
    /\ processed' = <<>>
    /\ ssPc' = "wait"
    /\ UNCHANGED <<ret, ssInput, candidateFiles, ssI, allSymbols, seen, ssOut>>
    /\ UNCHANGED <<cacheVars, gaVars, sfVars, opVars>>

\* followExport has returned: resolved?.resolvedSymbol ?? null, pushed when
\* its key is new; then the end of the iteration
SsResume ==
    /\ ssPc = "wait" /\ fePc = "done"
    /\ LET resolved == IF ret = None THEN None ELSE ret[1].resolvedSymbol
           pushed == PushNew(allSymbols, seen, resolved)
       IN  /\ allSymbols' = pushed.allSymbols
           /\ seen' = pushed.seen
           /\ Advance(pushed.allSymbols)
    /\ fePc' = "idle"
    /\ UNCHANGED <<request, stack, visited, ret, processed>>
    /\ UNCHANGED <<ssInput, candidateFiles>>
    /\ UNCHANGED <<cacheVars, gaVars, sfVars, opVars>>

(***************************************************************************)
(* The workspaces searchSymbol is run on: A.ts and B.ts at the root and    *)
(* src/D.ts one level down; the query is "ab".                             *)
(***************************************************************************)
NameAb == <<"a", "b">>
NameAbb == <<"a", "b", "b">>
NameB == <<"b">>

SearchFileA == Path("", "A", ".ts")
SearchFileB == Path("", "B", ".ts")
SearchFileD == Path("src", "D", ".ts")

SearchTextsA ==
    {Text(<<>>, <<Named(Some(NameAb), Some(NameAb), Some("B"))>>),
     Text(<<>>, <<Named(Some(NameB), Some(NameAb), Some("B"))>>),
     Text(<<Decl(NameAbb, "function", 1), Decl(NameAb, "class", 2)>>, <<>>)}

SearchTextsB ==
    {Text(<<Decl(NameAb, "function", 1), Decl(NameB, "const", 2)>>, <<>>),
     Text(<<Decl(NameAbb, "function", 1)>>, <<All(Some("A"))>>),
     ThrowingText}

SearchTextsD ==
    {Text(<<Decl(NameAb, "function", 1)>>, <<>>),
     Text(<<Decl(NameAbb, "function", 1), Decl(NameAb, "function", 2)>>, <<>>)}

SearchTrees ==
    {Tree([q \in {SearchFileA, SearchFileB, SearchFileD} |->
              IF q = SearchFileA THEN a ELSE IF q = SearchFileB THEN b ELSE d]) :
        a \in SearchTextsA, b \in SearchTextsB, d \in SearchTextsD}

SearchInputs ==
    {[query |-> NameAb, type |-> t, limit |-> limit, followExports |-> f] :
        t \in {None, Some("function")}, limit \in Limits, f \in BOOLEAN}

\* Array.from(new Set(matches.map((m) => m.file))): distinct files
CandidateLists(fs) ==
    LET files == {ToRelative(abs) : abs \in DOMAIN fs}
    IN  {list \in UNION {[1..n -> files] : n \in 0..Cardinality(files)} :
            \A i, j \in 1..Len(list) : list[i] = list[j] => i = j}

InitSearch ==
    /\ disk \in SearchTrees
    /\ cache = EmptyMap
    /\ pf = IdleFrame
    /\ dirty = FALSE
    /\ FeIdle
    /\ ToolsIdle

NextSearch ==
    \/ \E input \in SearchInputs, files \in CandidateLists(disk) : SsCall(input, files)
    \/ SsExtract
    \/ SsFollow
    \/ SsResume
    \/ FeEnter
    \/ FeLoop
    \/ FeResume

SpecSearch == InitSearch /\ [][NextSearch]_vars

\* no two records of the list have the same (file, name, start line)
Distinct(list) ==
    \A i, j \in 1..Len(list) : SymbolKey(list[i]) = SymbolKey(list[j]) => i = j

\* C18 (no duplicates): neither the list searchSymbol accumulates nor the
\* list it returns ever holds two records with the same (file, name, start
\* line), whether a symbol is reached by extraction, by export following,
\* or by export following from several files.
C18_NoDuplicates ==
    /\ Distinct(allSymbols)
    /\ Distinct(ssOut)
    /\ seen = {SymbolKey(allSymbols[i]) : i \in 1..Len(allSymbols)}

\* B.ts declares ab, A.ts re-exports it from B.ts, both are candidates:
\* the symbol is extracted from B.ts and resolved from A.ts and from B.ts,
\* and returned once
C18_Witness ==
    /\ ssPc = "done" /\ ssInput[1].followExports
    /\ candidateFiles = <<SearchFileB, SearchFileA>>
    /\ ReExportsFrom(SearchFileA, SearchFileB)
    /\ Len(allSymbols) = 1
    /\ allSymbols[1].file = SearchFileB /\ allSymbols[1].name = NameAb
    /\ ssOut = allSymbols

\* C19 (limit and order): the list searchSymbol returns has at most
\* `limit` records (none when limit is below one); a record named exactly
\* as the query comes before every record whose name only contains it, and
\* of two records of the same exactness the one whose file has fewer path
\* segments comes first.
C19_LimitAndOrder ==
    ssPc = "done" =>
        /\ Len(ssOut) <= ssInput[1].limit \/ ssOut = <<>>
        /\ \A i, j \in 1..Len(ssOut) :
              (ssOut[i].name = ssInput[1].query /\ ssOut[j].name # ssInput[1].query)
                  => i < j
        /\ \A i, j \in 1..Len(ssOut) :
              ((ssOut[i].name = ssInput[1].query) = (ssOut[j].name = ssInput[1].query)
                 /\ SegmentCount(ssOut[i].file) < SegmentCount(ssOut[j].file)) => i < j

(***************************************************************************)
(* registry.ts on the characters of a path.  A path and an extension are   *)
(* the lists of their characters.                                          *)
(***************************************************************************)
\* String.prototype.lastIndexOf for one character: a 0-based index, or -1
LastIndexOf(str, ch) ==
    IF \E i \in 1..Len(str) : str[i] = ch
    THEN (CHOOSE i \in 1..Len(str) :
             str[i] = ch /\ \A j \in (i + 1)..Len(str) : str[j] # ch) - 1
    ELSE 0 - 1

\* String.prototype.substring(start): a negative start counts as 0
Substring(str, start) ==
    LET from == IF start < 0 THEN 0 ELSE IF start > Len(str) THEN Len(str) ELSE start
    IN  SubSeq(str, from + 1, Len(str))

\* the LanguageParser objects, in the order parsers/index.ts imports them
LanguageParser(language, extensions) == [language |-> language, extensions |-> extensions]

LanguageParsers ==
    << LanguageParser("typescript", << <<".", "t", "s">>, <<".", "t", "s", "x">>,
                                       <<".", "j", "s">>, <<".", "j", "s", "x">> >>),
       LanguageParser("solidity", << <<".", "s", "o", "l">> >>),
       LanguageParser("html", << <<".", "h", "t", "m", "l">>, <<".", "h", "t", "m">> >>),
       LanguageParser("css", << <<".", "c", "s", "s">>, <<".", "l", "e", "s", "s">>,
                                <<".", "s", "a", "s", "s">>, <<".", "s", "c", "s", "s">> >>),
       LanguageParser("python", << <<".", "p", "y">>, <<".", "p", "y", "w">> >>),
       LanguageParser("vue", << <<".", "v", "u", "e">> >>) >>

\* registerParser: parsers.set(ext, parser) for each extension
RECURSIVE RegisterExtensions(_, _, _)
RegisterExtensions(map, parser, exts) ==
    IF exts = <<>> THEN map
    ELSE RegisterExtensions(MapSet(map, Head(exts), parser.language), parser, Tail(exts))

RegisterParser(map, parser) == RegisterExtensions(map, parser, parser.extensions)

RECURSIVE RegisterAll(_, _)
RegisterAll(map, list) ==
    IF list = <<>> THEN map ELSE RegisterAll(RegisterParser(map, Head(list)), Tail(list))

\* the map `parsers` once the language modules are loaded
Parsers == RegisterAll(EmptyMap, LanguageParsers)

\* getParserForFile on the characters of filePath
GetParserForFilePath(filePath) ==
    LET ext == Substring(filePath, LastIndexOf(filePath, "."))
    IN  MapGet(Parsers, ext)

\* the paths looked up: a directory, a base name and an ending
RegistryDirs == {<<>>, <<"a", "/">>, <<"a", ".", "b", "/">>}

RegistryBases == {<<>>, <<"a">>, <<"a", ".", "b">>}

UpperChar(ch) ==
    IF \E i \in 1..Len(LowerLetters) : LowerLetters[i] = ch
    THEN UpperLetters[CHOOSE i \in 1..Len(LowerLetters) : LowerLetters[i] = ch]
    ELSE ch

\* each registered extension as registered, in capitals, and with its
\* first letter a capital; an unregistered ending; a lone dot; no ending
RegistryEndings ==
    (DOMAIN Parsers)
        \cup {[i \in 1..Len(e) |-> UpperChar(e[i])] : e \in DOMAIN Parsers}
        \cup {[i \in 1..Len(e) |-> IF i = 2 THEN UpperChar(e[i]) ELSE e[i]] :
                 e \in DOMAIN Parsers}
        \cup {<<".", "m", "d">>, <<".">>, <<>>, <<"t", "s">>}

RegistryPaths == {d \o b \o e : d \in RegistryDirs, b \in RegistryBases, e \in RegistryEndings}

InitRegistry ==
    /\ disk = EmptyMap
    /\ cache = EmptyMap
    /\ pf = IdleFrame
    /\ dirty = FALSE
    /\ FeIdle
    /\ GaIdle
    /\ SfIdle
    /\ SsIdle
    /\ opPc = "call"
    /\ opArgs \in {<<filePath>> : filePath \in RegistryPaths}
    /\ opRet = <<>>

\* getParserForFile(filePath)
GetParserForFileCall ==
    /\ opPc = "call"
    /\ opRet' = GetParserForFilePath(opArgs[1])
    /\ opPc' = "done"
    /\ UNCHANGED <<opArgs, cacheVars, feVars, gaVars, sfVars, ssVars>>

NextRegistry == GetParserForFileCall

SpecRegistry == InitRegistry /\ [][NextRegistry]_vars

\* the final extension of a path: the text from its last dot on, if any
FinalExtension(filePath) ==
    IF LastIndexOf(filePath, ".") < 0 THEN None
    ELSE Some(Substring(filePath, LastIndexOf(filePath, ".")))

\* C21 (getParserForFile): the extractor returned is the one registered
\* for the lower-case form of the path's final extension, so the letter
\* case of the extension does not matter, and it is none for a path with
\* no extension or with an extension that is not registered.
C21_LowercaseExtension ==
    opPc = "done" =>
        opRet = IF FinalExtension(opArgs[1]) = None THEN None
                ELSE MapGet(Parsers, ToLowerCase(FinalExtension(opArgs[1])[1]))

(***************************************************************************)
(* parsers/index.ts parseFile called on one file while the file changes    *)
(* between the calls.  typescript.ts, solidity.ts, python.ts, html.ts and  *)
(* css.ts define parseFile line for line alike.                            *)
(***************************************************************************)
\* one file per extractor of a single-language dialect, a file with an
\* extension that is not registered and one with no extension
DispatchPaths ==
    {Path("", "m", e) : e \in {".ts", ".sol", ".html", ".css", ".py", ".txt", ""}}

DispatchContents ==
    {EmptyText, ThrowingText,
     Text(<<Decl("X", "function", 1)>>, <<Named(Some("X"), Some("X"), None)>>),
     Text(<<Decl("Y", "class", 1), Decl("X", "function", 2)>>, <<Default(Some("Y"))>>)}

DispatchFiles ==
    {File(t, c, TRUE) : t \in Mtimes, c \in DispatchContents}
        \cup {File(t, EmptyText, FALSE) : t \in Mtimes}

InitDispatch ==
    /\ disk = EmptyMap
    /\ cache = EmptyMap
    /\ pf = IdleFrame
    /\ dirty = FALSE
    /\ FeIdle
    /\ GaIdle
    /\ SfIdle
    /\ SsIdle
    /\ opPc = "idle"
    /\ opArgs \in {<<q>> : q \in DispatchPaths}
    /\ opRet = <<>>

\* parseFile(filePath) of parsers/index.ts, run to its return
ParseFileCall ==
    /\ LET r == ParseFileDispatch(cache, disk, opArgs[1])
       IN  /\ cache' = r.cache
           /\ opRet' = Some(r.result)
    /\ opPc' = "done"
    /\ UNCHANGED <<opArgs, disk, pf, dirty, feVars, gaVars, sfVars, ssVars>>

NextDispatch ==
    \/ ParseFileCall
    \/ \E f \in DispatchFiles : EnvWrite(opArgs[1], f)
    \/ EnvDelete(opArgs[1])

SpecDispatch == InitDispatch /\ [][NextDispatch]_vars

\* C22 (ParseOutcome): an outcome returned by parseFile for a file of a
\* single-language extractor, or by the dispatcher for an extension that
\* is not registered, that has errors has no symbols and no exports.
C22_FailureIsTotal ==
    (opPc = "done" /\ opArgs[1].ext # ".vue") =>
        (opRet[1].errors # <<>> =>
            opRet[1].symbols = <<>> /\ opRet[1].exports = <<>>)

\* a file with a registered extractor holds a text the parser throws on
\* and has been parsed: the outcome has errors and nothing is cached
C22_Witness ==
    /\ opPc = "done"
    /\ GetParserForFile(opArgs[1]) # None
    /\ ReadFileContent(disk, opArgs[1]) = Some(ThrowingText)
    /\ opRet[1].errors # <<>>
    /\ opArgs[1] \notin DOMAIN cache

(***************************************************************************)
(* vue.ts.  The text of a .vue file is the list of its tokens: a line      *)
(* break, the opening or closing tag of a section, a declaration, a        *)
(* component tag, a style rule, or a text the tree-sitter parser throws on.*)
(***************************************************************************)
Tok(t, name) == [t |-> t, name |-> name]

Newline == Tok("nl", "")
Open(section) == Tok("open", section)
Close(section) == Tok("close", section)
Unparseable == Tok("throws", "")

\* text.slice(0, idx).split('\n').length, idx the 0-based position k - 1
LinesBefore(text, k) == Cardinality({j \in 1..(k - 1) : text[j] = Newline}) + 1

\* sourceCode.match(/<section([^>]*)>([\s\S]*?)<\/section>/i): the first
\* opening tag with a closing tag after it, up to the first such closing
\* tag; the SfcBlock holds the content and the line of the opening tag
ExtractBlock(sourceCode, section) ==
    LET opens == {i \in 1..Len(sourceCode) :
                     /\ sourceCode[i] = Open(section)
                     /\ \E j \in (i + 1)..Len(sourceCode) : sourceCode[j] = Close(section)}
    IN  IF opens = {} THEN None
        ELSE LET startIdx == CHOOSE i \in opens : \A k \in opens : i <= k
                 endIdx == CHOOSE j \in (startIdx + 1)..Len(sourceCode) :
                              /\ sourceCode[j] = Close(section)
                              /\ \A k \in (startIdx + 1)..(j - 1) :
                                    sourceCode[k] # Close(section)
             IN  Some([content |-> SubSeq(sourceCode, startIdx + 1, endIdx - 1),
                       startLine |-> LinesBefore(sourceCode, startIdx)])

ExtractSfcBlocks(sourceCode) ==
    [script |-> ExtractBlock(sourceCode, "script"),
     template |-> ExtractBlock(sourceCode, "template"),
     style |-> ExtractBlock(sourceCode, "style")]

\* the positions in content of the tokens of the kinds given, in order
Positions(content, kinds) ==
    SelectSeq([i \in 1..Len(content) |-> i], LAMBDA i : content[i].t \in kinds)

VueSymbol(name, kind, file, startLine, endLine) ==
    [name |-> name, kind |-> kind, file |-> file, startLine |-> startLine,
     endLine |-> endLine]

\* node.startPosition.row: the 0-based line of the node in the text parsed
Row(content, k) == LinesBefore(content, k) - 1

\* collectScriptSymbols: startLine = node.startPosition.row + 1 + baseOffset
CollectScriptSymbols(content, filePath, baseOffset) ==
    LET at == Positions(content, {"decl", "export"})
    IN  [n \in 1..Len(at) |->
            VueSymbol(content[at[n]].name, "function", filePath,
                      Row(content, at[n]) + 1 + baseOffset,
                      Row(content, at[n]) + 1 + baseOffset)]

\* collectExports on the script section
CollectExports(content, baseOffset) ==
    LET at == Positions(content, {"export"})
    IN  [n \in 1..Len(at) |->
            Named(Some(content[at[n]].name), Some(content[at[n]].name), None)]

\* collectTemplateComponents: lineNum = beforeMatch.split('\n').length,
\* startLine = lineNum + baseOffset
CollectTemplateComponents(templateContent, filePath, baseOffset) ==
    LET at == Positions(templateContent, {"component"})
    IN  [n \in 1..Len(at) |->
            VueSymbol(templateContent[at[n]].name, "component", filePath,
                      LinesBefore(templateContent, at[n]) + baseOffset,
                      LinesBefore(templateContent, at[n]) + baseOffset)]

\* collectCssSymbols: startLine = node.startPosition.row + 1 + baseOffset
CollectCssSymbols(content, filePath, baseOffset) ==
    LET at == Positions(content, {"rule"})
    IN  [n \in 1..Len(at) |->
            VueSymbol(content[at[n]].name, "selector", filePath,
                      Row(content, at[n]) + 1 + baseOffset,
                      Row(content, at[n]) + 1 + baseOffset)]

\* parser.parse(content) throws
ParseThrows(content) == \E i \in 1..Len(content) : content[i] = Unparseable

\* parseFile of vue.ts: one try block around the three sections
VueParseFile(c, fs, p) ==
    LET g == GetCachedResult(c, fs, p)
        sourceCode == ReadFileContent(fs, p)
    IN  IF g.result # None THEN [cache |-> g.cache, result |-> g.result[1]]
        ELSE IF sourceCode = None \/ sourceCode[1] = <<>>
             THEN [cache |-> g.cache, result |-> ReadError(p)]
        ELSE LET blocks == ExtractSfcBlocks(sourceCode[1])
                 fromScript ==
                     IF blocks.script = None THEN <<>>
                     ELSE CollectScriptSymbols(blocks.script[1].content, p,
                                               blocks.script[1].startLine)
                 exports ==
                     IF blocks.script = None THEN <<>>
                     ELSE CollectExports(blocks.script[1].content,
                                         blocks.script[1].startLine)
                 fromTemplate ==
                     IF blocks.template = None THEN <<>>
                     ELSE CollectTemplateComponents(blocks.template[1].content, p,
                                                    blocks.template[1].startLine)
                 fromStyle ==
                     IF blocks.style = None THEN <<>>
                     ELSE CollectCssSymbols(blocks.style[1].content, p,
                                            blocks.style[1].startLine)
                 result == [symbols |-> fromScript \o fromTemplate \o fromStyle,
                            exports |-> exports, errors |-> <<>>]
             IN  IF \/ blocks.script # None /\ ParseThrows(blocks.script[1].content)
                    \/ blocks.style # None /\ ParseThrows(blocks.style[1].content)
                 THEN [cache |-> g.cache, result |-> ParseError(p)]
                 ELSE [cache |-> SetCachedResult(g.cache, fs, p, result),
                       result |-> result]

\* the .vue file of the model and what it holds: up to two line breaks,
\* then each section, if it is there, with one of six bodies
VuePath == Path("", "c", ".vue")

SectionItem(section, n) ==
    IF section = "script" THEN (IF n = 1 THEN Tok("decl", "f") ELSE Tok("export", "g"))
    ELSE IF section = "template"
         THEN (IF n = 1 THEN Tok("component", "Foo") ELSE Tok("component", "Bar"))
    ELSE (IF n = 1 THEN Tok("rule", ".a") ELSE Tok("rule", ".b"))

SectionBodies(section) ==
    {<<>>,
     <<SectionItem(section, 1)>>,
     <<Newline, SectionItem(section, 1), Newline>>,
     <<Newline, Newline, SectionItem(section, 1), Newline, SectionItem(section, 2), Newline>>,
     <<Newline, SectionItem(section, 1), Newline, Unparseable, Newline>>}

Sections(section) ==
    {<<>>} \cup {<<Open(section)>> \o b \o <<Close(section), Newline>> :
                    b \in SectionBodies(section)}

VueSources ==
    {lead \o a \o b \o d :
        lead \in {<<>>, <<Newline>>, <<Newline, Newline>>},
        a \in Sections("script"), b \in Sections("template"), d \in Sections("style")}

InitVue ==
    /\ disk \in {[q \in {ToAbsolute(VuePath)} |-> File(1, src, TRUE)] : src \in VueSources}
    /\ cache = EmptyMap
    /\ pf = IdleFrame
    /\ dirty = FALSE
    /\ FeIdle
    /\ GaIdle
    /\ SfIdle
    /\ SsIdle
    /\ opPc = "call"
    /\ opArgs = <<VuePath>>
    /\ opRet = <<>>

\* parseFile(filePath) of vue.ts
VueParseFileCall ==
    /\ opPc = "call"
    /\ LET r == VueParseFile(cache, disk, opArgs[1])
       IN  /\ cache' = r.cache
           /\ opRet' = Some(r.result)
    /\ opPc' = "done"
    /\ UNCHANGED <<opArgs, disk, pf, dirty, feVars, gaVars, sfVars, ssVars>>

NextVue == VueParseFileCall

SpecVue == InitVue /\ [][NextVue]_vars

\* the text of the file parsed
VueText == disk[ToAbsolute(opArgs[1])].content

\* the names declared in a section of the file that parses
NamesOf(section) ==
    LET block == ExtractBlock(VueText, section)
    IN  IF block = None \/ ParseThrows(block[1].content) THEN {}
        ELSE {block[1].content[i].name :
                 i \in {k \in 1..Len(block[1].content) :
                           block[1].content[k].t \in {"decl", "export", "component", "rule"}}}

\* C23 (compound document): the symbols of every section whose parse does
\* not fail are in the outcome returned, whether or not the parse of
\* another section fails.
C23_SectionsIndependent ==
    opPc = "done" =>
        \A section \in {"script", "template", "style"} :
            \A name \in NamesOf(section) :
                \E i \in 1..Len(opRet[1].symbols) : opRet[1].symbols[i].name = name

\* the 1-based line of the file on which the symbol called name stands
LineOf(name) ==
    LinesBefore(VueText, CHOOSE k \in 1..Len(VueText) : VueText[k].name = name)

\* C25 (section offsets): every symbol of the outcome has as start and end
\* line the 1-based line of the whole file on which it stands.
C25_AbsoluteLines ==
    opPc = "done" =>
        \A i \in 1..Len(opRet[1].symbols) :
            /\ opRet[1].symbols[i].startLine = LineOf(opRet[1].symbols[i].name)
            /\ opRet[1].symbols[i].endLine = LineOf(opRet[1].symbols[i].name)

(***************************************************************************)
(* The order of the branches of followExport.                              *)
(***************************************************************************)
\* the export records of the file requested, and what the i-th leads to
RequestedExports == Parsed(request[1].filePath).exports

BranchCall(i) ==
    RecursiveCall(disk, request[1].filePath, request[1].exportedName, RequestedExports[i])

BranchDefault(i) ==
    DefaultSymbol(Parsed(request[1].filePath), request[1].exportedName,
                  RequestedExports[i])

\* the i-th record resolves in one hop: its target declares the name
\* called for, or it is the default export of a local symbol
BranchHits(i) ==
    IF BranchCall(i) # None
    THEN /\ Parsed(BranchCall(i)[1].filePath).errors = <<>>
         /\ FindSymbol(Parsed(BranchCall(i)[1].filePath).symbols,
                       BranchCall(i)[1].exportedName) # None
    ELSE BranchDefault(i) # None

\* the i-th record fails at once: it leads nowhere, or to a file that
\* does not parse, or to one without that name and without exports
BranchFails(i) ==
    IF BranchCall(i) # None
    THEN \/ Parsed(BranchCall(i)[1].filePath).errors # <<>>
         \/ /\ FindSymbol(Parsed(BranchCall(i)[1].filePath).symbols,
                          BranchCall(i)[1].exportedName) = None
            /\ Parsed(BranchCall(i)[1].filePath).exports = <<>>
    ELSE BranchDefault(i) = None

\* the i-th record is the first that resolves, the ones before it failing
FirstHit(i) ==
    /\ request # None
    /\ Parsed(request[1].filePath).errors = <<>>
    /\ ~DeclaredLocally
    /\ i \in 1..Len(RequestedExports)
    /\ BranchHits(i)
    /\ \A j \in 1..(i - 1) : BranchFails(j)

\* what followExport returns when the i-th record decides, and the keys
\* it has parsed by then
DecidedBy(i) ==
    /\ ret # None
    /\ IF BranchCall(i) # None
       THEN /\ ret[1].resolvedFile = BranchCall(i)[1].filePath
            /\ ret[1].resolvedSymbol =
                  FindSymbol(Parsed(BranchCall(i)[1].filePath).symbols,
                             BranchCall(i)[1].exportedName)
            /\ ret[1].exportChain = <<request[1].filePath, BranchCall(i)[1].filePath>>
       ELSE /\ ret[1].resolvedFile = request[1].filePath
            /\ ret[1].resolvedSymbol = BranchDefault(i)
            /\ ret[1].exportChain = <<request[1].filePath>>
    /\ \A k \in 1..Len(processed) :
          \/ processed[k] = <<request[1].filePath, request[1].exportedName>>
          \/ \E j \in 1..i :
                /\ BranchCall(j) # None
                /\ processed[k] = <<BranchCall(j)[1].filePath, BranchCall(j)[1].exportedName>>

\* C24 (branch order): the first export record, in declaration order, that
\* resolves decides the result, and no record after it is consulted; the
\* records of a call are examined one after the other from the first, a
\* branch that resolves ends the call with its result, and a branch that
\* fails is followed by the next record.
C24_FirstBranchWins ==
    /\ [](fePc = "done" =>
            \A i \in 1..MaxRecords : FirstHit(i) => DecidedBy(i))
    /\ [][(fePc = "run" /\ Top.at = "resume") =>
            IF ret # None
            THEN /\ stack' = SubSeq(stack, 1, Len(stack) - 1)
                 /\ ret'[1].resolvedSymbol = ret[1].resolvedSymbol
                 /\ processed' = processed
            ELSE /\ stack' = [stack EXCEPT ![Len(stack)].at = "loop",
                                           ![Len(stack)].i = Top.i + 1]
                 /\ ret' = None]_vars
    /\ [][(fePc = "run" /\ Top.at = "enter" /\ fePc' = "run"
              /\ Len(stack') = Len(stack)) => stack'[Len(stack')].i = 1]_vars

\* the first record led to a file without the name, the second resolved
C24_Witness ==
    /\ fePc = "done"
    /\ FirstHit(2)
    /\ BranchCall(1) # None /\ BranchCall(2) # None
    /\ BranchCall(1)[1].filePath # BranchCall(2)[1].filePath
    /\ Len(processed) = 3

(***************************************************************************)
(* The early end of the loop of searchSymbol.                              *)
(***************************************************************************)
\* the candidate files the loop has reached
Scanned == {candidateFiles[k] : k \in 1..ssI}

\* C26 (early termination): a candidate file after the first is scanned
\* only while fewer than twice the limit have accumulated; the files after
\* the one at which the loop ended are neither parsed nor export-followed;
\* and what is returned is the accumulated list, sorted and truncated.
C26_EarlyTermination ==
    /\ (ssPc = "extract" /\ ssI > 1) => Len(allSymbols) < ssInput[1].limit * 2
    /\ request # None => request[1].filePath \in Scanned
    /\ (ssPc = "done" /\ candidateFiles # <<>>) =>
          /\ ssOut = Slice0(SortSymbols(allSymbols, ssInput[1].query), ssInput[1].limit)
          /\ \A i \in 1..Len(allSymbols) : SymbolKey(allSymbols[i]) \in seen
          /\ ~ssInput[1].followExports => DOMAIN cache \subseteq Scanned

\* the loop ended at the second of three candidate files, where the
\* second symbol accumulated for a limit of one
C26_Witness ==
    /\ ssPc = "done"
    /\ ssInput[1].limit = 1
    /\ Len(candidateFiles) = 3 /\ ssI = 2
    /\ Len(allSymbols) = 2
    /\ candidateFiles[3] \notin DOMAIN cache

(***************************************************************************)
(* parseFile while another process edits the file.  Every write gives the  *)
(* file a later modification time than it had, and no file is deleted, so  *)
(* a modification time never stands for two contents.                      *)
(***************************************************************************)
\* f is a later version of what is at p, or p does not exist yet
LaterVersion(p, f) ==
    ToAbsolute(p) \in DOMAIN disk => f.mtime > disk[ToAbsolute(p)].mtime

NextRace ==
    \/ \E p \in CachePaths : PfCall(p)
    \/ PfLookup
    \/ PfRead
    \/ PfParse
    \/ PfReturn
    \/ \E p \in CachePaths : Invalidate(Some(p))
    \/ \E p \in CachePaths : \E f \in FilesAt(p) : LaterVersion(p, f) /\ EnvWrite(p, f)

SpecRace == Init /\ [][NextRace]_vars

\* C27 (no stale population): a cache entry whose stored modification
\* time is the file's current one holds the outcome of the file's current
\* content, also when the file was modified between the read and the stat
\* of setCachedResult.
C27_NoStalePopulation ==
    \A p \in DOMAIN cache :
        (/\ StatMtime(disk, ToAbsolute(p)) = Some(cache[p].mtime)
         /\ disk[ToAbsolute(p)].readable) =>
            /\ Parseable(disk, p)
            /\ cache[p].result = Extract(p, disk[ToAbsolute(p)].content)

(***************************************************************************)
(* followExport on a long chain with a short cut: m0.ts re-exports from    *)
(* m1.ts, ... up to m<len>.ts, which declares X, and m0.ts has a second    *)
(* re-export into m<to>.ts, before or after the first.                     *)
(***************************************************************************)
ShortcutText(kind, len, to, first, i) ==
    IF i = len THEN Text(<<FnX>>, <<>>)
    ELSE IF i = 0
    THEN Text(<<>>, IF first THEN <<ChainLink(kind, to), ChainLink(kind, 1)>>
                    ELSE <<ChainLink(kind, 1), ChainLink(kind, to)>>)
    ELSE Text(<<>>, <<ChainLink(kind, i + 1)>>)

ShortcutTrees ==
    {Tree([q \in {Path("", Module(i), ".ts") : i \in 0..len} |->
              ShortcutText(kind, len, to, first, CHOOSE i \in 0..len : q.base = Module(i))]) :
        len \in (MAX_DEPTH - 1)..(MAX_DEPTH + 2), to \in (MAX_DEPTH - 2)..MAX_DEPTH,
        first \in BOOLEAN, kind \in {"named", "all"}}

InitShortcut ==
    /\ disk \in ShortcutTrees
    /\ cache = EmptyMap
    /\ pf = IdleFrame
    /\ dirty = FALSE
    /\ FeIdle
    /\ ToolsIdle

NextShortcut ==
    \/ \E abs \in DOMAIN disk : FeCall(ToRelative(abs), "X")
    \/ FeEnter
    \/ FeLoop
    \/ FeResume

SpecShortcut == InitShortcut /\ [][NextShortcut]_vars

\* the (file, name) pairs one re-export hop away from the pair key
HopTargets(key) ==
    IF Parsed(key[1]).errors # <<>> THEN {}
    ELSE {<<RecursiveCall(disk, key[1], key[2], Parsed(key[1]).exports[i])[1].filePath,
            RecursiveCall(disk, key[1], key[2], Parsed(key[1]).exports[i])[1].exportedName>> :
             i \in {j \in 1..Len(Parsed(key[1]).exports) :
                       RecursiveCall(disk, key[1], key[2], Parsed(key[1]).exports[j]) # None}}

\* the pairs within k hops of the pairs in S
RECURSIVE PairsWithin(_, _)
PairsWithin(S, k) ==
    IF k = 0 THEN S
    ELSE PairsWithin(S \cup UNION {HopTargets(key) : key \in S}, k - 1)

\* the file of the pair declares the name of the pair
Declares(key) ==
    /\ Parsed(key[1]).errors = <<>>
    /\ FindSymbol(Parsed(key[1]).symbols, key[2]) # None

\* C28 (completeness within the depth bound): when a file that declares
\* the name is within MAX_DEPTH re-export hops of the file requested,
\* followExport returns a result.
C28_CompleteWithinDepth ==
    fePc = "done" =>
        ((\E key \in PairsWithin({<<request[1].filePath, request[1].exportedName>>},
                                 MAX_DEPTH) : Declares(key))
            => ret # None)

(***************************************************************************)
(* The kind filter of searchSymbol.                                        *)
(***************************************************************************)
\* C29 (kind filter): when searchSymbol is called with a kind, every
\* record it returns has that kind, the records appended through export
\* following included.
C29_KindFilter ==
    (ssPc = "done" /\ ssInput # None /\ ssInput[1].type # None) =>
        \A i \in 1..Len(ssOut) : ssOut[i].kind = ssInput[1].type[1]

(***************************************************************************)
(* The read failure of parseFile.                                          *)
(***************************************************************************)
\* C30 (read failure): a parseFile call during which the file does not
\* change returns the read-failure outcome only when the file is missing
\* or unreadable; for a readable file, an empty one included, whose text
\* the parser accepts, it returns an outcome without errors, which is then
\* in the cache.
C30_ReadFailureOnlyWhenUnreadable ==
    (pf.pc = "done" /\ ~dirty) =>
        /\ pf.result = Some(ReadError(pf.path[1])) =>
              ReadFileContent(disk, pf.path[1]) = None
        /\ (/\ ReadFileContent(disk, pf.path[1]) # None
            /\ ~ReadFileContent(disk, pf.path[1])[1].throws) =>
              /\ pf.result[1].errors = <<>>
              /\ pf.path[1] \in DOMAIN cache

====
